---- MODULE Spec2Model ----
(***************************************************************************)
(* Model of api-operacao: the multi-step student import workflow           *)
(* (app/services/alunos_service.py), the text and CSV helpers it calls     *)
(* (app/utils), the routers that invoke it (app/routers/alunos.py) and the *)
(* gunicorn deployment (gunicorn_config.py).                               *)
(*                                                                         *)
(* Text is modelled as a sequence of characters; a character is a string   *)
(* token: one ASCII character, or a named token for a character outside    *)
(* ASCII ("BOM" is U+FEFF).                                                *)
(***************************************************************************)
EXTENDS Integers, Sequences, FiniteSets, TLC

(***************************************************************************)
(* Characters and Python string primitives                                 *)
(***************************************************************************)
LowerLetters == <<"a","b","c","d","e","f","g","h","i","j","k","l","m",
                  "n","o","p","q","r","s","t","u","v","w","x","y","z">>

UpperLetters == <<"A","B","C","D","E","F","G","H","I","J","K","L","M",
                  "N","O","P","Q","R","S","T","U","V","W","X","Y","Z">>

Digits == {"0","1","2","3","4","5","6","7","8","9"}

\* Characters of the Latin-1 range À-ÿ, as named tokens.
AccentedLower == <<"a_acute", "e_acute", "a_tilde", "c_cedil">>

AccentedUpper == <<"A_ACUTE", "E_ACUTE", "A_TILDE", "C_CEDIL">>

\* What str.strip() removes and what \s matches.
Whitespace == {" ", "\t", "\r", "\n"}

InSeq(c, s) == \E i \in 1..Len(s) : s[i] = c

LowerSet == {LowerLetters[i] : i \in 1..Len(LowerLetters)}

UpperSet == {UpperLetters[i] : i \in 1..Len(UpperLetters)}

AccentedSet == {AccentedLower[i] : i \in 1..Len(AccentedLower)}
                   \cup {AccentedUpper[i] : i \in 1..Len(AccentedUpper)}

IndexIn(c, s) == CHOOSE i \in 1..Len(s) : s[i] = c

\* str.upper() on one character
UpperChar(c) ==
    IF c \in LowerSet THEN UpperLetters[IndexIn(c, LowerLetters)]
    ELSE IF InSeq(c, AccentedLower) THEN AccentedUpper[IndexIn(c, AccentedLower)]
    ELSE c

\* str.lower() on one character
LowerChar(c) ==
    IF c \in UpperSet THEN LowerLetters[IndexIn(c, UpperLetters)]
    ELSE IF InSeq(c, AccentedUpper) THEN AccentedLower[IndexIn(c, AccentedUpper)]
    ELSE c

Upper(t) == [i \in 1..Len(t) |-> UpperChar(t[i])]

Lower(t) == [i \in 1..Len(t) |-> LowerChar(t[i])]

RECURSIVE LStrip(_)
LStrip(t) ==
    IF t = <<>> THEN <<>>
    ELSE IF Head(t) \in Whitespace THEN LStrip(Tail(t)) ELSE t

RECURSIVE RStrip(_)
RStrip(t) ==
    IF t = <<>> THEN <<>>
    ELSE IF t[Len(t)] \in Whitespace THEN RStrip(SubSeq(t, 1, Len(t) - 1)) ELSE t

\* str.strip()
Strip(t) == RStrip(LStrip(t))

\* str.count(c)
CountChar(t, c) == Cardinality({i \in 1..Len(t) : t[i] = c})

\* str.split(d): one piece more than there are delimiters
RECURSIVE SplitAcc(_, _, _, _)
SplitAcc(t, d, cur, acc) ==
    IF t = <<>> THEN Append(acc, cur)
    ELSE IF Head(t) = d THEN SplitAcc(Tail(t), d, <<>>, Append(acc, cur))
    ELSE SplitAcc(Tail(t), d, Append(cur, Head(t)), acc)

Split(t, d) == SplitAcc(t, d, <<>>, <<>>)

\* A variant that takes any text as ending in the suffix.
EndsWithAnything(t, suffix) == TRUE

\* str.endswith(suffix)
EndsWith(t, suffix) ==
    /\ Len(t) >= Len(suffix)
    /\ SubSeq(t, Len(t) - Len(suffix) + 1, Len(t)) = suffix

\* [f(x) for x in s if p(x)] helpers
RECURSIVE SelectNonBlankStripped(_)
SelectNonBlankStripped(ls) ==
    IF ls = <<>> THEN <<>>
    ELSE IF Strip(Head(ls)) # <<>>
         THEN <<Strip(Head(ls))>> \o SelectNonBlankStripped(Tail(ls))
         ELSE SelectNonBlankStripped(Tail(ls))

(***************************************************************************)
(* app/utils/csv_processor.py: parse_csv_basic                             *)
(***************************************************************************)
\* The delimiter: ';' when the header line holds more ';' than ','.
DetectDelimiter(first_line) ==
    IF InSeq(";", first_line) /\ CountChar(first_line, ";") > CountChar(first_line, ",")
    THEN ";" ELSE ","

\* The character loop over one data line: quotes toggle in_quotes, the
\* delimiter outside quotes closes the current value.
RECURSIVE ParseLineAcc(_, _, _, _, _)
ParseLineAcc(line, delimiter, current, in_quotes, values) ==
    IF line = <<>> THEN Append(values, Strip(current))
    ELSE LET char == Head(line) IN
         IF char = "\""
         THEN ParseLineAcc(Tail(line), delimiter, current, ~in_quotes, values)
         ELSE IF char = delimiter /\ ~in_quotes
         THEN ParseLineAcc(Tail(line), delimiter, <<>>, in_quotes,
                           Append(values, Strip(current)))
         ELSE ParseLineAcc(Tail(line), delimiter, Append(current, char), in_quotes, values)

\* Pad with "" to the header width, then cut to it.
FitWidth(values, n) ==
    [i \in 1..n |-> IF i <= Len(values) THEN values[i] ELSE <<>>]

ParseDataLine(line, delimiter, n) == FitWidth(ParseLineAcc(line, delimiter, <<>>, FALSE, <<>>), n)

parse_csv_basic(file_content) ==
    LET lines == SelectNonBlankStripped(Split(file_content, "\n")) IN
    IF Len(lines) < 2
    THEN [success |-> FALSE, headers |-> <<>>, data_rows |-> <<>>]
    ELSE LET delimiter == DetectDelimiter(lines[1])
             hs == Split(lines[1], delimiter)
             headers == [i \in 1..Len(hs) |-> Upper(Strip(hs[i]))]
         IN [success |-> TRUE,
             headers |-> headers,
             data_rows |-> [k \in 1..(Len(lines) - 1) |->
                              ParseDataLine(lines[k + 1], delimiter, Len(headers))]]

(***************************************************************************)
(* app/utils/text_utils.py                                                 *)
(***************************************************************************)
IsLetter(c) == c \in LowerSet \/ c \in UpperSet

IsAccented(c) == c \in AccentedSet

\* not re.match(r'^[A-Za-z0-9\sÀ-ÿ]+$', text); False for empty text
has_special_characters(text) ==
    IF text = <<>> THEN FALSE
    ELSE ~(\A i \in 1..Len(text) :
              IsLetter(text[i]) \/ text[i] \in Digits \/ text[i] \in Whitespace
              \/ IsAccented(text[i]))

\* The base letters of AccentedUpper, in the same order.
AccentBase == <<"A", "E", "A", "C">>

\* unicodedata.normalize('NFD', text) followed by the removal of every
\* character of category Mn: an accented letter is left as its base letter
Unaccent(c) ==
    IF InSeq(c, AccentedUpper) THEN AccentBase[IndexIn(c, AccentedUpper)]
    ELSE IF InSeq(c, AccentedLower)
         THEN LowerChar(AccentBase[IndexIn(c, AccentedLower)])
    ELSE c

\* str.split() without argument: the maximal runs of non-whitespace
RECURSIVE WordsAcc(_, _, _)
WordsAcc(t, cur, acc) ==
    IF t = <<>> THEN (IF cur = <<>> THEN acc ELSE Append(acc, cur))
    ELSE IF Head(t) \in Whitespace
         THEN WordsAcc(Tail(t), <<>>, IF cur = <<>> THEN acc ELSE Append(acc, cur))
    ELSE WordsAcc(Tail(t), Append(cur, Head(t)), acc)

Words(t) == WordsAcc(t, <<>>, <<>>)

\* ' '.join(words)
RECURSIVE JoinSpace(_)
JoinSpace(words) ==
    IF words = <<>> THEN <<>>
    ELSE IF Len(words) = 1 THEN words[1]
    ELSE words[1] \o <<" ">> \o JoinSpace(Tail(words))

\* re.sub(r'[^A-Z0-9\s]', '', text)
KeepPlain(t) ==
    SelectSeq(t, LAMBDA c : c \in UpperSet \/ c \in Digits \/ c \in Whitespace)

\* normalize_text: strip, upper, collapse whitespace, remove accents, remove
\* every character that is no capital letter, digit or whitespace, strip
normalize_text(text) ==
    IF text = <<>> THEN <<>>
    ELSE LET collapsed == JoinSpace(Words(Upper(Strip(text))))
             unaccented == [i \in 1..Len(collapsed) |-> Unaccent(collapsed[i])]
         IN  Strip(KeepPlain(unaccented))

EmailLocalChar(c) == IsLetter(c) \/ c \in Digits \/ c \in {".", "_", "-"}

EmailDomainChar(c) == IsLetter(c) \/ c \in Digits \/ c \in {".", "-"}

\* re.match(r'^[a-zA-Z0-9._-]+@[a-zA-Z0-9.-]+\.[a-zA-Z]{2,6}$', email)
EmailPatternMatches(e) ==
    \E at \in 2..Len(e) : \E dot \in (at + 2)..Len(e) :
        /\ e[at] = "@"
        /\ \A i \in 1..(at - 1) : EmailLocalChar(e[i])
        /\ \A i \in (at + 1)..(dot - 1) : EmailDomainChar(e[i])
        /\ e[dot] = "."
        /\ Len(e) - dot >= 2 /\ Len(e) - dot <= 6
        /\ \A i \in (dot + 1)..Len(e) : IsLetter(e[i])

validate_email(email) ==
    IF email = <<>> THEN [valid |-> TRUE, email |-> <<>>, error |-> "none"]
    ELSE LET e == Strip(email) IN
         IF e = <<>> THEN [valid |-> TRUE, email |-> <<>>, error |-> "none"]
         ELSE IF ~EmailPatternMatches(e)
              THEN [valid |-> FALSE, email |-> e, error |-> "email_invalido"]
              ELSE [valid |-> TRUE, email |-> e, error |-> "none"]

Min2(a, b) == IF a <= b THEN a ELSE b

Max2(a, b) == IF a >= b THEN a ELSE b

\* One row of the Levenshtein matrix from the row above it; rows are
\* indexed 1..len2+1 for the columns 0..len2.
RECURSIVE LevRowAcc(_, _, _, _, _)
LevRowAcc(prev, ch, str2, j, cur) ==
    IF j > Len(str2) THEN cur
    ELSE LET cost == IF ch = str2[j] THEN 0 ELSE 1
             v == Min2(Min2(prev[j + 1] + 1, cur[j] + 1), prev[j] + cost)
         IN LevRowAcc(prev, ch, str2, j + 1, Append(cur, v))

RECURSIVE LevRows(_, _, _, _)
LevRows(str1, str2, i, prev) ==
    IF i > Len(str1) THEN prev
    ELSE LevRows(str1, str2, i + 1, LevRowAcc(prev, str1[i], str2, 1, <<i>>))

Levenshtein(str1, str2) ==
    LevRows(str1, str2, 1, [j \in 1..(Len(str2) + 1) |-> j - 1])[Len(str2) + 1]

\* A variant that compares the texts without folding their case.
CaseSensitiveSimilarity(str1, str2) ==
    IF str1 = <<>> \/ str2 = <<>> THEN [num |-> 0, den |-> 1]
    ELSE IF str1 = str2 THEN [num |-> 1, den |-> 1]
    ELSE LET max_len == Max2(Len(str1), Len(str2))
         IN [num |-> max_len - Levenshtein(str1, str2), den |-> max_len]

\* The similarity as the fraction num/den (the code's float 1 - distance/max_len).
calculate_similarity(str1, str2) ==
    IF str1 = <<>> \/ str2 = <<>> THEN [num |-> 0, den |-> 1]
    ELSE LET s1 == Lower(str1)
             s2 == Lower(str2)
         IN IF s1 = s2 THEN [num |-> 1, den |-> 1]
            ELSE LET max_len == Max2(Len(s1), Len(s2))
                 IN [num |-> max_len - Levenshtein(s1, s2), den |-> max_len]

\* The default threshold 0.7 as ThresholdNum / ThresholdDen.
ThresholdNum == 7

ThresholdDen == 10

\* round(similarity, 3), in thousandths (ties to even).
Round3(sim) ==
    LET q == (1000 * sim.num) \div sim.den
        r2 == 2 * ((1000 * sim.num) % sim.den)
    IN IF r2 > sim.den \/ (r2 = sim.den /\ q % 2 = 1) THEN q + 1 ELSE q

\* threshold <= similarity < 1.0
InSimilarBand(sim) ==
    /\ ThresholdNum * sim.den <= ThresholdDen * sim.num
    /\ sim.num < sim.den

\* The value lines 143-145 return for two names that differ ignoring case:
\* 1 - distance / max_len, max_len the length of the longer name.
SimilarityAt(max_len, distance) == [num |-> max_len - distance, den |-> max_len]

\* The body of the loop of detect_similar_names for one existing name: the
\* entry appended when the similarity lies in the band, rounded to 3 places.
SimilarEntry(nome, similarity) ==
    IF InSimilarBand(similarity)
    THEN <<[nome_existente |-> nome, similaridade |-> Round3(similarity)]>>
    ELSE <<>>

RECURSIVE detect_similar_names(_, _)
detect_similar_names(new_name, existing_names) ==
    IF existing_names = <<>> THEN <<>>
    ELSE LET existing == Head(existing_names)
         IN SimilarEntry(existing.nome, calculate_similarity(new_name, existing.nome))
                \o detect_similar_names(new_name, Tail(existing_names))

(***************************************************************************)
(* Bounds of the model                                                     *)
(***************************************************************************)
\* The clock int(time.time()) takes the values 0..MaxTime.
MaxTime == 1

\* Requests served in one behaviour.
MaxCalls == 5

\* Worker processes of the deployment (gunicorn_config.py: workers).
NumWorkers == 2

\* Requests a worker serves before gunicorn restarts it (max_requests, scaled).
RequestQuota == 2

(***************************************************************************)
(* State                                                                   *)
(***************************************************************************)
VARIABLES
    now,              \* int(time.time())
    import_sessions,  \* per worker process: the module-level dict import_sessions
    db,               \* the MySQL server: database name -> tables
    last,             \* the last request served and the result it returned
    issued,           \* the session ids returned by successful step 1 calls
    calls,            \* requests served so far
    served,           \* per worker process: requests served since it started
    tasks,            \* the request coroutines on the event loop of one worker
    base,             \* the registry and the store when two racing calls arrived
    security          \* the block lists and the attack counters of the process

vars == <<now, import_sessions, db, last, issued, calls, served, tasks, base, security>>

\* Option values: <<>> is None, <<v>> is the value v.
None == <<>>

Some(v) == <<v>>

(***************************************************************************)
(* Inputs: files, mappings, database names                                 *)
(***************************************************************************)
FileCsv == <<"a", ".", "C", "s", "v">>

FileTxt == <<"a", ".", "t", "x", "t">>

NL == "\n"

\* n;R;S;G;T with five data lines: a valid row, its exact copy, a row whose
\* class is unknown, a row repeating that row's RA, a row repeating the
\* first row's RA.
Content1 ==
    <<"n",";","R",";","S",";","G",";","T",NL,
      "a","n","a",";","1",";","X",";","1",";","A",NL,
      "a","n","a",";","1",";","X",";","1",";","A",NL,
      "B","I","A",";","2",";","X",";","1",";","B",NL,
      "C","A","I","O",";","2",";","X",";","1",";","A",NL,
      "C","A","I","A",";","1",";","X",";","1",";","A",NL>>

\* N,R,S,G,T with two data lines: a name with a hyphen, and a student whose
\* RA is already enrolled.
Content2 ==
    <<"N",",","R",",","S",",","G",",","T",NL,
      "\"","D","-","D","\"",",","3",",","X",",","1",",","A",NL,
      "D","A","N",","," ","2",",","X",",","1",",","A">>

\* A header line only.
ContentHeaderOnly == <<"N",";","R",NL,NL>>

\* A variant with a ceiling of 10 MB.
TenMegabytes == 10 * 1024 * 1024

MaxFileSize == 25 * 1024 * 1024

DbNames == {"d1", "d2"}

\* field_mappings: frontend key -> internal field, in this order
field_mappings ==
    <<[key |-> "nome_coluna", field |-> "nome"],
      [key |-> "ra_coluna", field |-> "ra"],
      [key |-> "email_coluna", field |-> "email"],
      [key |-> "instituicao_coluna", field |-> "escola"],
      [key |-> "serie_coluna", field |-> "serie"],
      [key |-> "turma_coluna", field |-> "turma"],
      [key |-> "senha_coluna", field |-> "senha"],
      [key |-> "numero_chamada_coluna", field |-> "numero_chamada"],
      [key |-> "portador_necessidade_coluna", field |-> "portador_necessidade"]>>

required_fields == <<"nome", "escola", "serie", "turma", "ra">>

RequiredSet == {required_fields[i] : i \in 1..Len(required_fields)}

\* The frontend mappings requests carry (key -> header text).
MapOk ==
    [nome_coluna |-> <<" ", "N">>, ra_coluna |-> <<"R">>, instituicao_coluna |-> <<"S">>,
     serie_coluna |-> <<"G">>, turma_coluna |-> <<"T">>]

\* name and school exchanged
MapAlt ==
    [nome_coluna |-> <<"S">>, ra_coluna |-> <<"R">>, instituicao_coluna |-> <<"N">>,
     serie_coluna |-> <<"G">>, turma_coluna |-> <<"T">>]

\* no school column, and a name header in the wrong case
MapMissing ==
    [nome_coluna |-> <<"n">>, ra_coluna |-> <<"R">>, instituicao_coluna |-> <<>>,
     serie_coluna |-> <<"G">>, turma_coluna |-> <<"T">>]

\* the password column points at the header the class column uses
MapShared ==
    [nome_coluna |-> <<"N">>, ra_coluna |-> <<"R">>, instituicao_coluna |-> <<"S">>,
     serie_coluna |-> <<"G">>, turma_coluna |-> <<"T">>, senha_coluna |-> <<"T">>]

\* Some(mapping), or None when the request body carries no mapping
Mappings == {Some(MapOk), Some(MapAlt), Some(MapMissing), Some(MapShared), None}

(***************************************************************************)
(* Python dict helpers                                                     *)
(***************************************************************************)
\* d[k] = v on a dict modelled as a function
DictPut(d, k, v) == [x \in (DOMAIN d) \cup {k} |-> IF x = k THEN v ELSE d[x]]

\* d.get(k) on a request mapping: the text, or "" when the key is absent
MapGet(m, k) == IF k \in DOMAIN m THEN m[k] ELSE <<>>

\* d[k] = v on an ordered dict modelled as a sequence of [col, field]:
\* an existing key keeps its position and takes the new value.
OrderedPut(d, col, field) ==
    IF \E i \in 1..Len(d) : d[i].col = col
    THEN [i \in 1..Len(d) |-> IF d[i].col = col THEN [col |-> col, field |-> field] ELSE d[i]]
    ELSE Append(d, [col |-> col, field |-> field])

\* list.index(x), 0-based; -1 stands for ValueError
ListIndex(l, x) ==
    IF \E i \in 1..Len(l) : l[i] = x
    THEN (CHOOSE i \in 1..Len(l) : l[i] = x /\ \A j \in 1..(i - 1) : l[j] # x) - 1
    ELSE -1

(***************************************************************************)
(* Results returned to the caller                                          *)
(***************************************************************************)
Result(success, step, kind) ==
    [success |-> success, step |-> step, kind |-> kind,
     session_id |-> None, missing_fields |-> <<>>, data |-> None]

Failure(step, kind) == Result(FALSE, step, kind)

\* A variant in which the exception leaves the step and the caller gets no
\* result object.
Escapes(step) == Result(FALSE, 0, "Raised")

\* except Exception as e: return {"success": False, "message": ..., "step": step}
\* the handler that encloses the body of every step
Caught(step) == Failure(step, "Exception")

(***************************************************************************)
(* AlunosService.step1_upload_validacao                                    *)
(***************************************************************************)
\* f"import_{int(time.time())}_{filename}"
SessionId(t, filename) == <<t, filename>>

\* cell.upper().strip() on every cell
NormalizeRows(data_rows) ==
    [i \in 1..Len(data_rows) |->
        [j \in 1..Len(data_rows[i]) |-> Strip(Upper(data_rows[i][j]))]]

NewSession(t, filename, headers, normalized_rows, db_name) ==
    [step |-> 1,
     filename |-> filename,
     headers |-> headers,
     data_rows |-> normalized_rows,
     total_rows |-> Len(normalized_rows),
     created_at |-> t,
     mapping |-> <<>>,
     validation_results |-> None,
     conflicts |-> <<>>,
     import_results |-> None,
     db_name |-> db_name]

CsvSuffix == <<".", "c", "s", "v">>

\* Returns the registry after the call and the result.
step1_upload_validacao(sessions, t, filename, file_content, file_size, db_name) ==
    IF ~EndsWith(Lower(filename), CsvSuffix)
    THEN [sessions |-> sessions, result |-> Failure(1, "UnsupportedFileType")]
    ELSE IF file_size > MaxFileSize
    THEN [sessions |-> sessions, result |-> Failure(1, "FileTooLarge")]
    ELSE LET parse_result == parse_csv_basic(file_content) IN
         IF ~parse_result.success
         THEN [sessions |-> sessions, result |-> Failure(1, "EmptyInput")]
         ELSE LET normalized_rows == NormalizeRows(parse_result.data_rows)
                  session_id == SessionId(t, filename)
              IN [sessions |->
                    DictPut(sessions, session_id,
                            NewSession(t, filename, parse_result.headers,
                                       normalized_rows, db_name)),
                  result |->
                    [Result(TRUE, 1, "ok") EXCEPT
                        !.session_id = Some(session_id),
                        !.data = Some([total_rows |-> Len(normalized_rows),
                                       headers |-> parse_result.headers])]]

(***************************************************************************)
(* AlunosService.step2_validar_mapeamento                                  *)
(***************************************************************************)
\* headers.index(column_name), then the same on stripped texts; -1 when
\* neither finds the column.
ResolveColumn(headers, column_name) ==
    LET exact == ListIndex(headers, column_name) IN
    IF exact >= 0 THEN exact
    ELSE ListIndex([i \in 1..Len(headers) |-> Strip(headers[i])], Strip(column_name))

\* The loop over field_mappings that fills internal_mapping.
RECURSIVE BuildInternalMapping(_, _, _, _)
BuildInternalMapping(headers, mapping, k, internal_mapping) ==
    IF k > Len(field_mappings) THEN internal_mapping
    ELSE LET column_name == MapGet(mapping, field_mappings[k].key)
             col_index == ResolveColumn(headers, column_name)
         IN IF column_name # <<>> /\ col_index >= 0
            THEN BuildInternalMapping(headers, mapping, k + 1,
                     OrderedPut(internal_mapping, col_index, field_mappings[k].field))
            ELSE BuildInternalMapping(headers, mapping, k + 1, internal_mapping)

MappedFields(internal_mapping) == {internal_mapping[i].field : i \in 1..Len(internal_mapping)}

\* A variant that reports no missing field.
NoMissingFields(internal_mapping) == <<>>

\* [field for field in required_fields if field not in mapped_fields]
MissingFields(internal_mapping) ==
    SelectSeq(required_fields, LAMBDA f : f \notin MappedFields(internal_mapping))

\* A variant that only ever moves the step forward.
SetStepForward(session, k) == [session EXCEPT !.step = IF @ > k THEN @ ELSE k]

\* session["step"] = k, the last statement of every step before its return
SetStep(session, k) == [session EXCEPT !.step = k]

\* A variant whose comparison is off by one.
StepBelowOffByOne(session, k) == session.step < k - 1

\* if session["step"] < k: the step refuses a session that has not reached k
StepBelow(session, k) == session.step < k

\* if db_name: session["db_name"] = db_name   ("" stands for a missing name)
SetDbName(session, db_name) ==
    IF db_name # "" THEN [session EXCEPT !.db_name = db_name] ELSE session

\* mapping is Some(dict) or None; None.get raises AttributeError.
step2_validar_mapeamento(sessions, session_id, mapping, db_name) ==
    IF session_id \notin DOMAIN sessions
    THEN [sessions |-> sessions, result |-> Failure(2, "SessionNotFound")]
    ELSE IF mapping = None
    THEN [sessions |-> sessions, result |-> Caught(2)]
    ELSE LET session == sessions[session_id]
             internal_mapping == BuildInternalMapping(session.headers, mapping[1], 1, <<>>)
             missing_fields == MissingFields(internal_mapping)
         IN IF missing_fields # <<>>
            THEN [sessions |-> sessions,
                  result |-> [Failure(2, "MissingRequiredFields") EXCEPT
                                 !.missing_fields = missing_fields]]
            ELSE [sessions |->
                    [sessions EXCEPT ![session_id] =
                        SetDbName(SetStep([session EXCEPT !.mapping = internal_mapping], 2),
                                  db_name)],
                  result |-> [Result(TRUE, 2, "ok") EXCEPT
                                 !.session_id = Some(session_id),
                                 !.data = Some([mapping |-> internal_mapping])]]

(***************************************************************************)
(* The external store (one MySQL database per name). A table is the        *)
(* sequence of its rows; a row's auto-increment id is its position.        *)
(***************************************************************************)
EmptyStore ==
    [instituicoes |-> <<>>, series |-> <<>>, turmas |-> <<>>,
     emails |-> <<>>, usuarios |-> <<>>, alunos |-> <<>>]

\* One school X, one grade 1, its class A, and one enrolled student (RA 2).
SeededStore ==
    [instituicoes |-> <<[i_nome |-> <<"X">>]>>,
     series |-> <<[s_nome |-> <<"1">>]>>,
     turmas |-> <<[t_nome |-> <<"A">>, t_serie |-> 1, t_instituicao |-> 1]>>,
     emails |-> <<>>,
     usuarios |-> <<[u_login |-> <<"2">>, u_nome |-> <<"O", "L", "D">>,
                     u_email |-> 0, u_instituicao |-> 1]>>,
     alunos |-> <<[a_usuario |-> 1, a_matricula |-> <<"2">>, a_turma |-> 1]>>]

\* fetchone() of a SELECT ... WHERE: the id of the first matching row, 0 for None
FirstId(matching) ==
    IF matching = {} THEN 0 ELSE CHOOSE i \in matching : \A j \in matching : i <= j

\* SELECT i_id FROM instituicoes WHERE i_nome = %s
SelectInstituicao(store, nome) ==
    FirstId({i \in 1..Len(store.instituicoes) : store.instituicoes[i].i_nome = nome})

\* SELECT s_id FROM series WHERE s_nome = %s
SelectSerie(store, nome) ==
    FirstId({i \in 1..Len(store.series) : store.series[i].s_nome = nome})

\* SELECT t_id FROM turmas WHERE t_nome = %s AND t_serie = %s AND t_instituicao = %s
SelectTurma(store, nome, serie_id, escola_id) ==
    FirstId({i \in 1..Len(store.turmas) :
                /\ store.turmas[i].t_nome = nome
                /\ store.turmas[i].t_serie = serie_id
                /\ store.turmas[i].t_instituicao = escola_id})

\* SELECT ... FROM alunos a INNER JOIN usuarios u ON u.u_id = a.a_usuario
\* WHERE a.a_matricula = %s
SelectAluno(store, ra) ==
    FirstId({i \in 1..Len(store.alunos) :
                /\ store.alunos[i].a_matricula = ra
                /\ store.alunos[i].a_usuario \in 1..Len(store.usuarios)})

\* SELECT COUNT(*) as total FROM instituicoes ... has_data; demo_mode = not has_data
Step3DemoMode(store) == ~(Len(store.instituicoes) > 0)

(***************************************************************************)
(* AlunosService.step3_validar_detectar_conflitos                          *)
(***************************************************************************)
\* field_indices: [field, col] for every mapping entry whose field is not "NULO"
FieldIndices(mapping) ==
    SelectSeq(mapping, LAMBDA e : e.field # "NULO")

\* row_data.get(f, "")
RowGet(row_data, f) == IF f \in DOMAIN row_data THEN row_data[f] ELSE <<>>

TextFields == {"nome", "escola", "serie", "turma"}

\* The loop over field_indices of one row: row_data, is_valid, row_errors and
\* the special_chars_errors entries it appends.
RECURSIVE ExtractFields(_, _, _, _, _)
ExtractFields(row_index, row, field_indices, k, acc) ==
    IF k > Len(field_indices) THEN acc
    ELSE LET field == field_indices[k].field
             col_index == field_indices[k].col
         IN IF col_index < Len(row)
            THEN LET stripped == Strip(row[col_index + 1])
                     value == IF field = "email" THEN Strip(Lower(stripped)) ELSE stripped
                     row_data == DictPut(acc.row_data, field, value)
                     e1 == IF field \in RequiredSet /\ value = <<>>
                           THEN <<[code |-> "obrigatorio", field |-> field]>> ELSE <<>>
                     e2 == IF field = "email" /\ value # <<>> /\ ~validate_email(value).valid
                           THEN <<[code |-> "email_invalido", field |-> field]>> ELSE <<>>
                     e3 == IF field \in TextFields /\ value # <<>> /\ has_special_characters(value)
                           THEN <<[code |-> "caracteres_especiais", field |-> field]>> ELSE <<>>
                     sp == IF e3 # <<>>
                           THEN <<[row_index |-> row_index, field |-> field,
                                   value |-> value, data |-> row_data]>>
                           ELSE <<>>
                 IN ExtractFields(row_index, row, field_indices, k + 1,
                        [row_data |-> row_data,
                         is_valid |-> acc.is_valid /\ e1 = <<>> /\ e2 = <<>> /\ e3 = <<>>,
                         row_errors |-> acc.row_errors \o e1 \o e2 \o e3,
                         special |-> acc.special \o sp])
            ELSE ExtractFields(row_index, row, field_indices, k + 1,
                        [row_data |-> DictPut(acc.row_data, field, <<>>),
                         is_valid |-> acc.is_valid /\ field \notin RequiredSet,
                         row_errors |-> acc.row_errors \o
                             (IF field \in RequiredSet
                              THEN <<[code |-> "nao_encontrado", field |-> field]>> ELSE <<>>),
                         special |-> acc.special])

\* "|".join(str(row_data.get(f, "")) for f in ['nome','ra','escola','serie','turma'])
RowHash(row_data) ==
    RowGet(row_data, "nome") \o <<"|">> \o RowGet(row_data, "ra") \o <<"|">> \o
    RowGet(row_data, "escola") \o <<"|">> \o RowGet(row_data, "serie") \o <<"|">> \o
    RowGet(row_data, "turma")

EmptyValidationResults ==
    [valid_rows |-> <<>>, invalid_rows |-> <<>>, warnings |-> <<>>, conflicts |-> <<>>,
     duplicates |-> <<>>, special_chars_errors |-> <<>>, similar_names |-> <<>>]

\* The per-row except branch: the row is recorded invalid with empty data.
RowException(st, row_index) ==
    [st EXCEPT !.vr.invalid_rows =
        Append(@, [row_index |-> row_index, data |-> <<>>,
                   errors |-> <<[code |-> "erro_processamento", field |-> ""]>>]),
               !.fault = "none"]

\* Lines 371-394: similar names against the names seen so far, then the
\* name joins them.
SimilarNamesStep(st, row_index, row_data) ==
    IF RowGet(row_data, "nome") = <<>> THEN st
    ELSE LET similar_names == detect_similar_names(row_data["nome"], st.nomes_processados)
         IN [st EXCEPT
               !.vr.similar_names = @ \o
                   [i \in 1..Len(similar_names) |->
                       [row_index |-> row_index,
                        nome_atual |-> row_data["nome"],
                        nome_similar |-> similar_names[i].nome_existente,
                        similaridade |-> similar_names[i].similaridade,
                        linha_similar |-> None,
                        data |-> row_data]],
               !.nomes_processados =
                   Append(@, [nome |-> row_data["nome"], row_index |-> row_index])]

\* Lines 404-427: the school, the grade, and the class of that school and grade.
ExistenceErrors(store, row_data) ==
    LET escola_exists == SelectInstituicao(store, row_data["escola"])
        serie_exists == SelectSerie(store, row_data["serie"])
    IN (IF escola_exists = 0 THEN <<[code |-> "escola_nao_existe", field |-> "escola"]>> ELSE <<>>)
       \o (IF serie_exists = 0 THEN <<[code |-> "serie_nao_existe", field |-> "serie"]>> ELSE <<>>)
       \o (IF escola_exists # 0 /\ serie_exists # 0
              /\ SelectTurma(store, row_data["turma"], serie_exists, escola_exists) = 0
           THEN <<[code |-> "turma_nao_existe", field |-> "turma"]>> ELSE <<>>)

\* Lines 435-446: the RA against the RAs recorded so far in this pass.
RaFileConflict(ras_encontrados, ra) ==
    IF ra # <<>> /\ ra \in DOMAIN ras_encontrados
    THEN <<[type |-> "ra_duplicado_arquivo", field |-> "ra", value |-> ra,
            duplicate_row |-> ras_encontrados[ra]]>>
    ELSE <<>>

\* A variant that records no RA.
RecordRaNever(ras_encontrados, ra, row_index) == ras_encontrados

RecordRa(ras_encontrados, ra, row_index) ==
    IF ra # <<>> /\ ra \notin DOMAIN ras_encontrados
    THEN DictPut(ras_encontrados, ra, row_index)
    ELSE ras_encontrados

\* A variant that never reports the enrolled student.
StoreConflictIgnored(store, demo_mode, ra) == <<>>

\* Lines 448-468: the student already enrolled under this RA.
StoreConflict(store, demo_mode, ra) ==
    LET aluno_existente == IF demo_mode THEN 0 ELSE SelectAluno(store, ra) IN
    IF ra # <<>> /\ aluno_existente # 0
    THEN <<[type |-> "aluno_duplicado", field |-> "ra", value |-> ra,
            existing_id |-> aluno_existente,
            existing_name |-> store.usuarios[store.alunos[aluno_existente].a_usuario].u_nome]>>
    ELSE <<>>

\* Lines 429-480 for a row that is valid after the existence checks.
ConflictStep(st, row_index, row_data, store, demo_mode) ==
    LET ra == RowGet(row_data, "ra")
        file_conflicts == RaFileConflict(st.ras_encontrados, ra)
        st1 == [st EXCEPT !.ras_encontrados = RecordRa(@, ra, row_index)]
    IN IF ra # <<>> /\ ~demo_mode /\ st.fault = "aluno_query"
       THEN RowException(st1, row_index)
       ELSE LET conflicts == file_conflicts \o StoreConflict(store, demo_mode, ra)
            IN [st1 EXCEPT
                  !.vr.valid_rows =
                      Append(@, [row_index |-> row_index, data |-> row_data,
                                 conflicts |-> conflicts, flags |-> {}]),
                  !.vr.conflicts = @ \o
                      [i \in 1..Len(conflicts) |->
                          [row_index |-> row_index, conflict |-> conflicts[i]]]]

\* A variant that forgets the row instead of recording it.
InvalidStepForgotten(st, row_index, row_data, row_errors) == st

InvalidStep(st, row_index, row_data, row_errors) ==
    [st EXCEPT !.vr.invalid_rows =
        Append(@, [row_index |-> row_index, data |-> row_data, errors |-> row_errors])]

\* Lines 396-487 for a row that is no duplicate: the existence checks, then
\* the row joins the valid or the invalid rows.
ClassifyRow(st, row_index, ex, store, demo_mode) ==
    IF ~ex.is_valid
    THEN InvalidStep(st, row_index, ex.row_data, ex.row_errors)
    ELSE IF demo_mode
    THEN ConflictStep(st, row_index, ex.row_data, store, demo_mode)
    ELSE IF ~({"escola", "serie", "turma"} \subseteq DOMAIN ex.row_data)
    THEN RowException(st, row_index)
    ELSE LET errs == ExistenceErrors(store, ex.row_data)
         IN IF errs = <<>>
            THEN ConflictStep(st, row_index, ex.row_data, store, demo_mode)
            ELSE InvalidStep(st, row_index, ex.row_data, ex.row_errors \o errs)

\* Lines 357-494 for the extracted fields ex of one row.
ProcessExtracted(st, row_index, ex, row_hash, store, demo_mode) ==
    IF row_hash \in DOMAIN st.rows_hash
    THEN [st EXCEPT
            !.vr.special_chars_errors = @ \o ex.special,
            !.vr.duplicates =
                Append(@, [row_index |-> row_index,
                           duplicate_of |-> st.rows_hash[row_hash],
                           data |-> ex.row_data])]
    ELSE ClassifyRow(
             SimilarNamesStep(
                 [st EXCEPT !.vr.special_chars_errors = @ \o ex.special,
                            !.rows_hash = DictPut(@, row_hash, row_index)],
                 row_index, ex.row_data),
             row_index, ex, store, demo_mode)

\* row_hash of the extracted fields, lines 357-369.
HashExtracted(st, row_index, ex, store, demo_mode) ==
    ProcessExtracted(st, row_index, ex, RowHash(ex.row_data), store, demo_mode)

\* The body of the loop over data_rows for one row.
ProcessRow(st, row_index, row, field_indices, store, demo_mode) ==
    HashExtracted(st, row_index,
        ExtractFields(row_index, row, field_indices, 1,
            [row_data |-> <<>>, is_valid |-> TRUE, row_errors |-> <<>>, special |-> <<>>]),
        store, demo_mode)

RECURSIVE ValidateRows(_, _, _, _, _, _)
ValidateRows(st, data_rows, i, field_indices, store, demo_mode) ==
    IF i > Len(data_rows) THEN st
    ELSE ValidateRows(ProcessRow(st, i - 1, data_rows[i], field_indices, store, demo_mode),
                      data_rows, i + 1, field_indices, store, demo_mode)

\* Transient store failures a step 3 call may meet: the connection cannot be
\* obtained, or the first enrolled-student lookup of the pass raises.
Step3Faults == {"none", "connect", "aluno_query"}

\* A variant that goes on from the lists of the previous pass.
KeptValidationResults(session) ==
    IF session.validation_results = None THEN EmptyValidationResults
    ELSE session.validation_results[1]

\* validation_results = {...}: every pass starts from empty lists
FreshValidationResults(session) == EmptyValidationResults

\* The validation pass of lines 266-494.
ValidationPass(session, store, fault) ==
    ValidateRows([vr |-> FreshValidationResults(session),
                  ras_encontrados |-> <<>>,
                  rows_hash |-> <<>>,
                  nomes_processados |-> <<>>,
                  fault |-> fault],
                 session.data_rows, 1, FieldIndices(session.mapping),
                 store, Step3DemoMode(store)).vr

\* Lines 497-521: the pass is saved in the session and summarised.
Step3Success(sessions, session_id, session, validation_results) ==
    [sessions |->
        [sessions EXCEPT ![session_id] =
            SetStep([session EXCEPT
                        !.validation_results = Some(validation_results),
                        !.conflicts = validation_results.conflicts], 3)],
     result |->
        [Result(TRUE, 3, "ok") EXCEPT
            !.session_id = Some(session_id),
            !.data = Some([valid_rows |-> Len(validation_results.valid_rows),
                           invalid_rows |-> Len(validation_results.invalid_rows),
                           conflicts_count |-> Len(validation_results.conflicts),
                           duplicates_count |-> Len(validation_results.duplicates),
                           total_rows |-> Len(session.data_rows)])]]

step3_validar_detectar_conflitos(sessions, stores, session_id, db_name, fault) ==
    IF session_id \notin DOMAIN sessions
    THEN [sessions |-> sessions, result |-> Failure(3, "SessionNotFound")]
    ELSE IF StepBelow(sessions[session_id], 2)
    THEN [sessions |-> sessions, result |-> Failure(3, "StepOutOfOrder")]
    ELSE LET session == SetDbName(sessions[session_id], db_name) IN
         IF fault = "connect" \/ session.db_name \notin DOMAIN stores
         THEN [sessions |-> [sessions EXCEPT ![session_id] = session],
               result |-> Caught(3)]
         ELSE Step3Success(sessions, session_id, session,
                           ValidationPass(session, stores[session.db_name], fault))

(***************************************************************************)
(* AlunosService.step4_resolver_conflitos                                  *)
(***************************************************************************)
DigitSeq == <<"0","1","2","3","4","5","6","7","8","9">>

\* int(row_index_str) for a text of decimal digits; -1 stands for ValueError
RECURSIVE ParseIntAcc(_, _)
ParseIntAcc(t, acc) ==
    IF t = <<>> THEN acc
    ELSE IF Head(t) \in Digits
         THEN ParseIntAcc(Tail(t), 10 * acc + (IndexIn(Head(t), DigitSeq) - 1))
         ELSE -1

ParseInt(t) == IF Strip(t) = <<>> THEN -1 ELSE ParseIntAcc(Strip(t), 0)

\* The key a resolution action sets on the valid row; "" for an unknown action.
ActionFlag(action) ==
    CASE action = "skip" -> "skip_import"
      [] action = "import_anyway" -> "import_with_conflict"
      [] action = "update_existing" -> "update_existing"
      [] OTHER -> ""

\* valid_row[flag] = True on the first valid row with that row_index
ApplyFlag(valid_rows, row_index, flag) ==
    LET hit == {i \in 1..Len(valid_rows) : valid_rows[i].row_index = row_index} IN
    IF hit = {} \/ flag = "" THEN valid_rows
    ELSE LET first == CHOOSE i \in hit : \A j \in hit : i <= j
         IN [valid_rows EXCEPT ![first].flags = @ \cup {flag}]

\* The loop of lines 590-609 from entry k on; raised tells that int() raised.
RECURSIVE ApplyResolutions(_, _, _, _)
ApplyResolutions(valid_rows, resolutions, k, applied) ==
    IF k > Len(resolutions)
    THEN [valid_rows |-> valid_rows, applied |-> applied, raised |-> FALSE]
    ELSE LET row_index == ParseInt(resolutions[k].key) IN
         IF row_index < 0
         THEN [valid_rows |-> valid_rows, applied |-> applied, raised |-> TRUE]
         ELSE LET flag == ActionFlag(resolutions[k].action)
                  hit == \E i \in 1..Len(valid_rows) : valid_rows[i].row_index = row_index
              IN ApplyResolutions(ApplyFlag(valid_rows, row_index, flag), resolutions, k + 1,
                                  IF hit /\ flag # "" THEN applied + 1 ELSE applied)

ResolvedRows(resolutions) == {ParseInt(resolutions[k].key) : k \in 1..Len(resolutions)}

\* A variant that keeps every conflict.
RemainingConflictsAll(conflicts, resolutions) == conflicts

\* Lines 611-622: the conflicts whose row_index is no key of the resolutions.
RemainingConflicts(conflicts, resolutions) ==
    SelectSeq(conflicts, LAMBDA c : c.row_index \notin ResolvedRows(resolutions))

\* Resolution sets requests carry: ordered [key, action] entries.
ResSkip4 == <<[key |-> <<"4">>, action |-> "skip"]>>

ResForce4 == <<[key |-> <<"4">>, action |-> "import_anyway"]>>

\* a resolution for row 3 followed by a key that is no number
ResBadKey == <<[key |-> <<"3">>, action |-> "update_existing"],
               [key |-> <<"x">>, action |-> "skip"]>>

\* Some(dict), or None when the request body carries no conflict_resolutions
Resolutions == {Some(ResSkip4), Some(ResForce4), Some(ResBadKey), None}

step4_resolver_conflitos(sessions, session_id, conflict_resolutions, db_name) ==
    IF session_id \notin DOMAIN sessions
    THEN [sessions |-> sessions, result |-> Failure(4, "SessionNotFound")]
    ELSE IF StepBelow(sessions[session_id], 3)
    THEN [sessions |-> sessions, result |-> Failure(4, "StepOutOfOrder")]
    ELSE LET session == SetDbName(sessions[session_id], db_name) IN
         IF conflict_resolutions = None \/ session.validation_results = None
         THEN \* None.items() or None["valid_rows"] raises
              [sessions |-> [sessions EXCEPT ![session_id] = session],
               result |-> Caught(4)]
         ELSE LET validation_results == session.validation_results[1]
                  res == ApplyResolutions(validation_results.valid_rows,
                                          conflict_resolutions[1], 1, 0)
                  flagged == [validation_results EXCEPT !.valid_rows = res.valid_rows]
              IN IF res.raised
                 THEN [sessions |->
                         [sessions EXCEPT ![session_id] =
                             [session EXCEPT !.validation_results = Some(flagged)]],
                       result |-> Caught(4)]
                 ELSE LET remaining_conflicts ==
                              RemainingConflicts(validation_results.conflicts,
                                                 conflict_resolutions[1])
                      IN [sessions |->
                            [sessions EXCEPT ![session_id] =
                                SetStep([session EXCEPT
                                    !.validation_results =
                                        Some([flagged EXCEPT !.conflicts = remaining_conflicts])],
                                    4)],
                          result |->
                            [Result(TRUE, 4, "ok") EXCEPT
                                !.session_id = Some(session_id),
                                !.data = Some([resolutions_applied |-> res.applied,
                                               remaining_conflicts |-> Len(remaining_conflicts)])]]

(***************************************************************************)
(* AlunosService.step5_importar_final                                      *)
(***************************************************************************)
\* Store failures a step 5 call may meet: the first INSERT INTO alunos of
\* the batch raises, every INSERT INTO alunos of the batch raises, or the
\* final commit raises.
Step5Faults == {"none", "aluno_insert", "aluno_insert_all", "commit"}

EmptyImportResults ==
    [alunos_criados |-> 0, alunos_com_ra_duplicado |-> 0, erros |-> <<>>, detalhes |-> <<>>]

\* A variant that takes no row as skipped.
SkipImportNever(row) == FALSE

\* row.get("skip_import", False)
SkipImport(row) == "skip_import" \in row.flags

\* [row for row in valid_rows if not row.get("skip_import", False)]
RowsToImport(valid_rows) ==
    SelectSeq(valid_rows, LAMBDA row : ~SkipImport(row))

\* A variant that records no error for the row.
ImportRowErrorDropped(st, row) == st

\* The except branch of one row (lines 821-827).
ImportRowError(st, row) ==
    [st EXCEPT !.import_results.erros =
        Append(@, [row_index |-> row.row_index,
                   ra |-> RowGet(row.data, "ra"),
                   nome |-> RowGet(row.data, "nome")])]

\* Lines 781-793: the id of the e-mail record, created when absent; 0 for no e-mail.
EmailStep(store, email) ==
    IF email = <<>> THEN [store |-> store, email_id |-> 0]
    ELSE LET email_existente == FirstId({i \in 1..Len(store.emails) : store.emails[i].e_endereco = email}) IN
         IF email_existente # 0 THEN [store |-> store, email_id |-> email_existente]
         ELSE [store |-> [store EXCEPT !.emails = Append(@, [e_endereco |-> email])],
               email_id |-> Len(store.emails) + 1]

\* Lines 795-819: the user account, then the student record.
CreateAluno(st, row, escola_id, turma_id) ==
    LET data == row.data
        ra == RowGet(data, "ra")
        nome == RowGet(data, "nome")
        em == EmailStep(st.store, RowGet(data, "email"))
    IN LET with_user ==
                    [em.store EXCEPT !.usuarios =
                        Append(@, [u_login |-> ra, u_nome |-> nome,
                                   u_email |-> em.email_id, u_instituicao |-> escola_id])]
                usuario_id == Len(with_user.usuarios)
            IN IF st.fault = "aluno_insert"
               THEN ImportRowError([st EXCEPT !.store = with_user, !.fault = "none"], row)
               ELSE IF st.fault = "aluno_insert_all"
               THEN ImportRowError([st EXCEPT !.store = with_user], row)
               ELSE [st EXCEPT
                       !.store = [with_user EXCEPT !.alunos =
                                     Append(@, [a_usuario |-> usuario_id,
                                                a_matricula |-> ra,
                                                a_turma |-> turma_id])],
                       !.import_results.alunos_criados = @ + 1,
                       !.import_results.detalhes =
                           Append(@, [row_index |-> row.row_index, ra |-> ra, nome |-> nome,
                                      status |-> "importado",
                                      aluno_id |-> Len(with_user.alunos) + 1])]

\* The body of the loop over rows_to_import for one row (lines 707-827),
\* outside demo mode. A lookup that finds nothing makes the subscript of
\* None raise, which the row's except branch records.
ImportRow(st, row) ==
    LET data == row.data IN
    IF SkipImport(row) THEN st
    ELSE IF ~({"escola", "serie", "turma"} \subseteq DOMAIN data)
    THEN ImportRowError(st, row)
    ELSE LET escola_id == SelectInstituicao(st.store, data["escola"])
             serie_id == SelectSerie(st.store, data["serie"])
             turma_id == SelectTurma(st.store, data["turma"], serie_id, escola_id)
             ra == RowGet(data, "ra")
             aluno_existente == SelectAluno(st.store, ra)
         IN IF escola_id = 0 \/ serie_id = 0 \/ turma_id = 0
            THEN ImportRowError(st, row)
            ELSE IF aluno_existente # 0
            THEN [st EXCEPT
                    !.import_results.alunos_com_ra_duplicado = @ + 1,
                    !.import_results.detalhes =
                        Append(@, [row_index |-> row.row_index, ra |-> ra,
                                   nome |-> RowGet(data, "nome"),
                                   status |-> "ra_ja_existe",
                                   aluno_id |-> aluno_existente])]
            ELSE CreateAluno(st, row, escola_id, turma_id)

RECURSIVE ImportRows(_, _, _)
ImportRows(st, rows_to_import, k) ==
    IF k > Len(rows_to_import) THEN st
    ELSE ImportRows(ImportRow(st, rows_to_import[k]), rows_to_import, k + 1)

\* connection.rollback(): the statements of the open transaction are undone.
\* The pool opens its connections with autocommit on (config.py, POOL_CONFIG),
\* and step 5 assigns connection.autocommit = False on the pooled connection
\* object; autocommit tells whether the session of the connection is still in
\* autocommit mode after that assignment. In autocommit mode every statement
\* was committed when it ran and the rollback undoes nothing.
Rollback(before, after, autocommit) == IF autocommit THEN after ELSE before

\* Returns the registry and the stores after the call, and the result.
step5_importar_final(sessions, stores, session_id, db_name, fault, autocommit) ==
    IF session_id \notin DOMAIN sessions
    THEN [sessions |-> sessions, stores |-> stores, result |-> Failure(5, "SessionNotFound")]
    ELSE IF StepBelow(sessions[session_id], 3)
    THEN [sessions |-> sessions, stores |-> stores, result |-> Failure(5, "StepOutOfOrder")]
    ELSE LET session == SetDbName(sessions[session_id], db_name) IN
         IF session.validation_results = None \/ session.db_name \notin DOMAIN stores
         THEN \* None["valid_rows"] raises, or USE names a database that is not there
              [sessions |-> [sessions EXCEPT ![session_id] = session],
               stores |-> stores,
               result |-> Caught(5)]
         ELSE LET rows_to_import == RowsToImport(session.validation_results[1].valid_rows)
                  done == ImportRows([store |-> stores[session.db_name],
                                      import_results |-> EmptyImportResults,
                                      fault |-> fault],
                                     rows_to_import, 1)
              IN IF done.fault = "commit"
                 THEN \* connection.commit() raises: rollback, and the step fails
                      [sessions |-> [sessions EXCEPT ![session_id] = session],
                       stores |-> [stores EXCEPT ![session.db_name] =
                                      Rollback(@, done.store, autocommit)],
                       result |-> Caught(5)]
                 ELSE [sessions |->
                         [sessions EXCEPT ![session_id] =
                             SetStep([session EXCEPT
                                         !.import_results = Some(done.import_results)], 5)],
                       stores |-> [stores EXCEPT ![session.db_name] = done.store],
                       result |->
                         [Result(TRUE, 5, "ok") EXCEPT
                             !.session_id = Some(session_id),
                             !.data = Some(done.import_results)]]

(***************************************************************************)
(* AlunosService.obter_status_importacao                                   *)
(***************************************************************************)
\* A variant that answers for any session id.
StatusOfAnyId(sessions, session_id) ==
    [Result(TRUE, 0, "ok") EXCEPT !.session_id = Some(session_id)]

obter_status_importacao(sessions, session_id) ==
    IF session_id \notin DOMAIN sessions
    THEN Failure(0, "SessionNotFound")
    ELSE [Result(TRUE, 0, "ok") EXCEPT
             !.session_id = Some(session_id),
             !.data = Some([step |-> sessions[session_id].step,
                            filename |-> sessions[session_id].filename,
                            total_rows |-> sessions[session_id].total_rows,
                            validation_results |-> sessions[session_id].validation_results,
                            import_results |-> sessions[session_id].import_results])]

(***************************************************************************)
(* The service as a state machine: one action per endpoint of              *)
(* app/routers/alunos.py, served by worker process w. The router takes     *)
(* db_name from the URL of each request and passes it to the service.      *)
(***************************************************************************)
Workers == 1..NumWorkers

\* The worker the single-process specifications use.
MainWorker == CHOOSE w \in Workers : \A v \in Workers : w <= v

\* A session id no upload ever returned.
UnknownSid == SessionId(MaxTime + 1, FileTxt)

\* The two request coroutines a worker's event loop may hold at once.
TaskIds == {1, 2}

IdleTask == [pc |-> "idle", request |-> None, snapshot |-> None]

NoCall == [op |-> "none", worker |-> 0, session_id |-> None, args |-> None,
           result |-> Result(TRUE, 0, "none")]

Call(op, w, session_id, args, result) ==
    [op |-> op, worker |-> w, session_id |-> session_id, args |-> args, result |-> result]

\* core/security.py lines 16-20 and routers/sistema.py lines 12-14 at import:
\* no attack counted, and two empty sets both named BLOCKED_IPS.
ClientIps == {"ip1", "ip2"}

NoAttacks ==
    [attack_attempts |-> [ip \in ClientIps |-> 0],
     BLOCKED_IPS |-> {},
     sistema_BLOCKED_IPS |-> {}]

Init ==
    /\ now = 0
    /\ import_sessions = [w \in Workers |-> <<>>]
    /\ db = [d \in DbNames |-> IF d = "d1" THEN SeededStore ELSE EmptyStore]
    /\ last = NoCall
    /\ issued = {}
    /\ calls = 0
    /\ served = [w \in Workers |-> 0]
    /\ tasks = [t \in TaskIds |-> IdleTask]
    /\ base = None
    /\ security = NoAttacks

\* The clock advances.
Tick ==
    /\ now < MaxTime
    /\ now' = now + 1
    /\ UNCHANGED <<import_sessions, db, last, issued, calls, served, tasks, base, security>>

\* POST /import/alunos/step1
Step1(w, filename, file_content, file_size, db_name) ==
    LET r == step1_upload_validacao(import_sessions[w], now, filename, file_content,
                                    file_size, db_name)
    IN /\ import_sessions' = [import_sessions EXCEPT ![w] = r.sessions]
       /\ issued' = IF r.result.success THEN issued \cup {r.result.session_id[1]} ELSE issued
       /\ last' = Call("step1", w, None,
                       Some([filename |-> filename, file_content |-> file_content,
                             file_size |-> file_size, db_name |-> db_name]),
                       r.result)
       /\ UNCHANGED <<now, db>>

\* POST /import/alunos/step2
Step2(w, session_id, mapping, db_name) ==
    LET r == step2_validar_mapeamento(import_sessions[w], session_id, mapping, db_name)
    IN /\ import_sessions' = [import_sessions EXCEPT ![w] = r.sessions]
       /\ last' = Call("step2", w, Some(session_id),
                       Some([mapping |-> mapping, db_name |-> db_name]), r.result)
       /\ UNCHANGED <<now, db, issued>>

\* POST /import/alunos/step3
Step3(w, session_id, db_name, fault) ==
    LET r == step3_validar_detectar_conflitos(import_sessions[w], db, session_id,
                                              db_name, fault)
    IN /\ import_sessions' = [import_sessions EXCEPT ![w] = r.sessions]
       /\ last' = Call("step3", w, Some(session_id),
                       Some([db_name |-> db_name, fault |-> fault]), r.result)
       /\ UNCHANGED <<now, db, issued>>

\* POST /import/alunos/step4
Step4(w, session_id, conflict_resolutions, db_name) ==
    LET r == step4_resolver_conflitos(import_sessions[w], session_id,
                                      conflict_resolutions, db_name)
    IN /\ import_sessions' = [import_sessions EXCEPT ![w] = r.sessions]
       /\ last' = Call("step4", w, Some(session_id),
                       Some([conflict_resolutions |-> conflict_resolutions,
                             db_name |-> db_name]), r.result)
       /\ UNCHANGED <<now, db, issued>>

\* POST /import/alunos/step5
Step5(w, session_id, db_name, fault, autocommit) ==
    LET r == step5_importar_final(import_sessions[w], db, session_id, db_name, fault,
                                  autocommit)
    IN /\ import_sessions' = [import_sessions EXCEPT ![w] = r.sessions]
       /\ db' = r.stores
       /\ last' = Call("step5", w, Some(session_id),
                       Some([db_name |-> db_name, fault |-> fault,
                             autocommit |-> autocommit]), r.result)
       /\ UNCHANGED <<now, issued>>

\* GET /import/alunos/status
Status(w, session_id) ==
    /\ last' = Call("status", w, Some(session_id), None,
                    obter_status_importacao(import_sessions[w], session_id))
    /\ UNCHANGED <<now, import_sessions, db, issued>>

(***************************************************************************)
(* The requests the specifications send                                    *)
(***************************************************************************)
Uploads ==
    {[filename |-> FileCsv, content |-> Content1, size |-> 64, db_name |-> "d1"],
     [filename |-> FileCsv, content |-> Content1, size |-> 11 * 1024 * 1024, db_name |-> "d1"],
     [filename |-> FileCsv, content |-> Content1, size |-> MaxFileSize + 1, db_name |-> "d1"],
     [filename |-> FileTxt, content |-> Content1, size |-> 64, db_name |-> "d1"],
     [filename |-> FileCsv, content |-> ContentHeaderOnly, size |-> 64, db_name |-> "d1"],
     [filename |-> FileCsv, content |-> <<>>, size |-> 0, db_name |-> "d1"],
     [filename |-> FileCsv, content |-> ContentHeaderOnly, size |-> 11 * 1024 * 1024,
      db_name |-> "d1"]}

MappingRequests == {[mapping |-> m, db_name |-> "d1"] : m \in Mappings}

ValidationRequests ==
    {[db_name |-> "d1", fault |-> f] : f \in Step3Faults}
    \cup {[db_name |-> "d2", fault |-> "none"]}

ResolutionRequests == {[resolutions |-> r, db_name |-> "d1"] : r \in Resolutions}

ImportRequests ==
    {[db_name |-> "d1", fault |-> f, autocommit |-> FALSE] : f \in Step5Faults}
    \cup {[db_name |-> "d1", fault |-> "commit", autocommit |-> TRUE],
          [db_name |-> "d2", fault |-> "none", autocommit |-> FALSE]}

\* Every request to worker w with a session id some upload returned, and one
\* request per endpoint with an unknown id.
Requests(w) ==
    \/ \E u \in Uploads : Step1(w, u.filename, u.content, u.size, u.db_name)
    \/ \E s \in issued, q \in MappingRequests : Step2(w, s, q.mapping, q.db_name)
    \/ \E s \in issued, q \in ValidationRequests : Step3(w, s, q.db_name, q.fault)
    \/ \E s \in issued, q \in ResolutionRequests : Step4(w, s, q.resolutions, q.db_name)
    \/ \E s \in issued, q \in ImportRequests : Step5(w, s, q.db_name, q.fault, q.autocommit)
    \/ \E s \in issued \cup {UnknownSid} : Status(w, s)
    \/ Step2(w, UnknownSid, Some(MapOk), "d1")
    \/ Step3(w, UnknownSid, "d1", "none")
    \/ Step4(w, UnknownSid, Some(ResSkip4), "d1")
    \/ Step5(w, UnknownSid, "d1", "none", FALSE)

\* MaxCalls bounds the requests that change a registry or the store.
WithinBudget == calls < MaxCalls

Spend ==
    calls' = IF <<import_sessions', db'>> # <<import_sessions, db>>
                THEN calls + 1 ELSE calls

(***************************************************************************)
(* Spec: one worker process serves every request, one after the other.     *)
(***************************************************************************)
Next ==
    \/ Tick
    \/ WithinBudget /\ Requests(MainWorker) /\ Spend /\ UNCHANGED <<served, tasks, base, security>>

Spec == Init /\ [][Next]_vars

(***************************************************************************)
(* Properties of Spec                                                      *)
(***************************************************************************)
\* The session registry of the one process of Spec.
Registry == import_sessions[MainWorker]

StepOps == {"step2", "step3", "step4", "step5"}

StepNumber(op) ==
    CASE op = "step2" -> 2 [] op = "step3" -> 3 [] op = "step4" -> 4 [] op = "step5" -> 5

\* The step in progress serves a request to op on session s (Tick, the only
\* other step of Spec, moves the clock).
Serves(op, s) == now' = now /\ last'.op = op /\ last'.session_id = Some(s)

\* The step in progress serves a successful request to op on session s.
Succeeds(op, s) == Serves(op, s) /\ last'.result.success

C2_UploadAllocatesFreshId ==
    [][(now' = now /\ last'.op = "step1" /\ last'.result.success) =>
          /\ last'.result.session_id[1] \notin DOMAIN Registry
          /\ \A s \in DOMAIN Registry : Registry'[s] = Registry[s]]_vars

\* C3: step 3 on a session below step 2, and step 4 or 5 on a session below
\* step 3, fail with StepOutOfOrder and change neither registry nor store.
C3_OutOfOrderRefused ==
    [][\A s \in DOMAIN Registry : \A op \in {"step3", "step4", "step5"} :
          (Serves(op, s) /\ Registry[s].step < (IF op = "step3" THEN 2 ELSE 3)) =>
              /\ ~last'.result.success
              /\ last'.result.kind = "StepOutOfOrder"
              /\ import_sessions' = import_sessions
              /\ db' = db]_vars

\* Step 5 has just been refused on a session that is below step 3.
C3_Witness ==
    /\ last.op = "step5" /\ last.result.kind = "StepOutOfOrder"
    /\ \E s \in DOMAIN Registry : last.session_id = Some(s) /\ Registry[s].step < 3

\* C4: a session at step 2 or later maps a column of its file to each of the
\* five required fields; at step 3 or later it stores a validation outcome;
\* at step 5 it stores an import outcome.
C4_StepImpliesInputs ==
    \A s \in DOMAIN Registry :
        LET session == Registry[s] IN
        /\ session.step >= 2 =>
              \A f \in RequiredSet :
                  \E i \in 1..Len(session.mapping) :
                      /\ session.mapping[i].field = f
                      /\ session.mapping[i].col \in 0..(Len(session.headers) - 1)
        /\ session.step >= 3 => session.validation_results # None
        /\ session.step = 5 => session.import_results # None

\* A session has reached step 5.
C4_Witness == \E s \in DOMAIN Registry : Registry[s].step = 5


\* The frontend key of an internal field.
KeyOf(f) == (CHOOSE e \in {field_mappings[i] : i \in 1..Len(field_mappings)} : e.field = f).key

\* text is not empty and equals a header, as it stands or after trimming both.
HeaderMatches(headers, text) ==
    /\ text # <<>>
    /\ \E i \in 1..Len(headers) : headers[i] = text \/ Strip(headers[i]) = Strip(text)

\* The required fields to which mapping m gives no matching header text.
Unmatched(headers, m) ==
    {f \in RequiredSet : ~HeaderMatches(headers, MapGet(m, KeyOf(f)))}

\* C7 as stated: for every mapping, step 2 succeeds exactly when each
\* required field is given a header text that matches a header of the
\* session; otherwise it fails with MissingRequiredFields listing exactly the
\* required fields without such a match.
C7_Step2SucceedsIffRequiredMatched ==
    [][\A s \in DOMAIN Registry :
          (Serves("step2", s) /\ last'.args[1].mapping # None) =>
              LET unmatched == Unmatched(Registry[s].headers, last'.args[1].mapping[1])
                  result == last'.result
              IN /\ result.success <=> unmatched = {}
                 /\ ~result.success =>
                       /\ result.kind = "MissingRequiredFields"
                       /\ {result.missing_fields[i] : i \in 1..Len(result.missing_fields)}
                              = unmatched]_vars

\* The row indices a list of row records holds.
RowIndices(rows) == {rows[i].row_index : i \in 1..Len(rows)}

\* How many records of the list carry row index r.
Occurrences(rows, r) == Cardinality({i \in 1..Len(rows) : rows[i].row_index = r})

\* C8: once step 3 has succeeded, every row index of the data rows is in
\* exactly one of valid, invalid and duplicates, whose sizes sum to the row
\* count; a row recorded as a duplicate of an earlier row is in neither valid
\* nor invalid, nor in the conflict list.
C8_RowsPartitioned ==
    \A s \in DOMAIN Registry :
        Registry[s].validation_results # None =>
            LET session == Registry[s]
                vr == session.validation_results[1]
            IN /\ \A r \in 0..(Len(session.data_rows) - 1) :
                      Occurrences(vr.valid_rows, r) + Occurrences(vr.invalid_rows, r)
                          + Occurrences(vr.duplicates, r) = 1
               /\ Len(vr.valid_rows) + Len(vr.invalid_rows) + Len(vr.duplicates)
                      = session.total_rows
               /\ session.total_rows = Len(session.data_rows)
               /\ \A i \in 1..Len(vr.duplicates) :
                      /\ vr.duplicates[i].duplicate_of < vr.duplicates[i].row_index
                      /\ vr.duplicates[i].row_index \notin
                             RowIndices(vr.valid_rows) \cup RowIndices(vr.invalid_rows)
                                 \cup RowIndices(vr.conflicts)

\* A validated session holds valid rows, invalid rows and dropped duplicates.
C8_Witness ==
    \E s \in DOMAIN Registry :
        /\ Registry[s].step >= 3
        /\ Registry[s].validation_results # None
        /\ Registry[s].validation_results[1].valid_rows # <<>>
        /\ Registry[s].validation_results[1].invalid_rows # <<>>
        /\ Registry[s].validation_results[1].duplicates # <<>>

\* The class row_data names exists in the store for its school and grade.
ClassExists(store, row_data) ==
    LET escola == SelectInstituicao(store, RowGet(row_data, "escola"))
        serie == SelectSerie(store, RowGet(row_data, "serie"))
    IN /\ escola # 0
       /\ serie # 0
       /\ SelectTurma(store, RowGet(row_data, "turma"), serie, escola) # 0

\* C9 as stated: after step 3 every valid row names a class that exists in
\* the store for its school and grade, whatever the store holds.
C9_ValidRowsReferenceExistingClass ==
    [][\A s \in DOMAIN Registry :
          Succeeds("step3", s) =>
              LET session == Registry'[s]
                  valid_rows == session.validation_results[1].valid_rows
              IN \A i \in 1..Len(valid_rows) :
                     ClassExists(db[session.db_name], valid_rows[i].data)]_vars

\* The fields step 3 extracts from data row number j (0-based) of a session.
RowData(session, j) ==
    ExtractFields(j, session.data_rows[j + 1], FieldIndices(session.mapping), 1,
                  [row_data |-> <<>>, is_valid |-> TRUE, row_errors |-> <<>>,
                   special |-> <<>>])

HasFileConflict(valid_row) ==
    \E k \in 1..Len(valid_row.conflicts) :
        valid_row.conflicts[k].type = "ra_duplicado_arquivo"

\* Row j passes the field checks and the existence checks of step 3.
PassesValidation(session, store, j) ==
    /\ RowData(session, j).is_valid
    /\ Step3DemoMode(store) \/ ExistenceErrors(store, RowData(session, j).row_data) = <<>>

\* C10 as stated: a valid row carries the in-file RA conflict exactly when
\* an earlier row of the file, valid or not, has the same RA.
C10_FileConflictIffEarlierRow ==
    [][\A s \in DOMAIN Registry :
          Succeeds("step3", s) =>
              LET session == Registry'[s]
                  valid_rows == session.validation_results[1].valid_rows
              IN \A i \in 1..Len(valid_rows) :
                     HasFileConflict(valid_rows[i]) <=>
                         \E j \in 0..(valid_rows[i].row_index - 1) :
                             RowGet(RowData(session, j).row_data, "ra")
                                 = RowGet(valid_rows[i].data, "ra")]_vars

\* C10 amended: a valid row carries the in-file RA conflict exactly when an
\* earlier row that was not dropped as an exact duplicate and passed the
\* field and existence checks has the same RA; earlier rows rejected by those
\* checks do not count, and the first occurrence of an RA never carries it.
C10_FileConflictIffEarlierCheckedRow ==
    [][\A s \in DOMAIN Registry :
          Succeeds("step3", s) =>
              LET session == Registry'[s]
                  vr == session.validation_results[1]
                  store == db[session.db_name]
                  SameRa(i, j) == RowGet(RowData(session, j).row_data, "ra")
                                      = RowGet(vr.valid_rows[i].data, "ra")
              IN \A i \in 1..Len(vr.valid_rows) :
                     /\ HasFileConflict(vr.valid_rows[i]) <=>
                            \E j \in 0..(vr.valid_rows[i].row_index - 1) :
                                /\ j \notin RowIndices(vr.duplicates)
                                /\ PassesValidation(session, store, j)
                                /\ SameRa(i, j)
                     /\ (\A j \in 0..(vr.valid_rows[i].row_index - 1) : ~SameRa(i, j))
                            => ~HasFileConflict(vr.valid_rows[i])]_vars

\* Step 3 has just validated a file in which one valid row carries the
\* in-file conflict and another valid row, whose RA an earlier invalid row
\* also has, carries none.
C10_Witness ==
    /\ last.op = "step3" /\ last.result.success
    /\ \E s \in DOMAIN Registry :
          /\ last.session_id = Some(s)
          /\ LET vr == Registry[s].validation_results[1] IN
             /\ \E i \in 1..Len(vr.valid_rows) : HasFileConflict(vr.valid_rows[i])
             /\ \E i \in 1..Len(vr.valid_rows), k \in 1..Len(vr.invalid_rows) :
                   /\ ~HasFileConflict(vr.valid_rows[i])
                   /\ vr.invalid_rows[k].row_index < vr.valid_rows[i].row_index
                   /\ RowGet(vr.invalid_rows[k].data, "ra") = RowGet(vr.valid_rows[i].data, "ra")


\* The valid row carries the conflict of the student the store holds under
\* the row's RA, with that student's id and name.
HasStoreConflict(valid_row, store) ==
    LET aluno == SelectAluno(store, RowGet(valid_row.data, "ra")) IN
    /\ aluno # 0
    /\ \E k \in 1..Len(valid_row.conflicts) :
          /\ valid_row.conflicts[k].type = "aluno_duplicado"
          /\ valid_row.conflicts[k].existing_id = aluno
          /\ valid_row.conflicts[k].existing_name
                 = store.usuarios[store.alunos[aluno].a_usuario].u_nome

\* C11: after a step 3 whose store lookups all answer, every entry of the
\* conflict list names a row of the valid list, and every row that was not
\* dropped as a duplicate, passed the field and existence checks, and whose
\* RA a student of the store already has, is in the valid list and carries
\* the conflict with that student's id and name.
C11_ConflictsKeepRowsValid ==
    [][\A s \in DOMAIN Registry :
          (Succeeds("step3", s) /\ last'.args[1].fault = "none") =>
              LET session == Registry'[s]
                  vr == session.validation_results[1]
                  store == db[session.db_name]
              IN /\ \A k \in 1..Len(vr.conflicts) :
                        vr.conflicts[k].row_index \in RowIndices(vr.valid_rows)
                 /\ \A j \in 0..(Len(session.data_rows) - 1) :
                        (/\ j \notin RowIndices(vr.duplicates)
                         /\ PassesValidation(session, store, j)
                         /\ SelectAluno(store, RowGet(RowData(session, j).row_data, "ra")) # 0)
                            => \E i \in 1..Len(vr.valid_rows) :
                                   /\ vr.valid_rows[i].row_index = j
                                   /\ HasStoreConflict(vr.valid_rows[i], store)]_vars

\* Step 3 has just validated a file one row of which has the RA of an
\* enrolled student: the row is valid and its conflict is listed.
C11_Witness ==
    /\ last.op = "step3" /\ last.result.success /\ last.args[1].fault = "none"
    /\ \E s \in DOMAIN Registry :
          /\ last.session_id = Some(s)
          /\ LET vr == Registry[s].validation_results[1] IN
             \E i \in 1..Len(vr.valid_rows), k \in 1..Len(vr.conflicts) :
                 /\ HasStoreConflict(vr.valid_rows[i], db[Registry[s].db_name])
                 /\ vr.conflicts[k].row_index = vr.valid_rows[i].row_index
                 /\ vr.conflicts[k].conflict.type = "aluno_duplicado"

\* C12 as stated: after a successful step 4 every valid row carries at most
\* one resolution flag, and a row the call resolved carries exactly the flag
\* of the last resolution the call names for it.
C12_OneFlagLastApplied ==
    [][\A s \in DOMAIN Registry :
          Succeeds("step4", s) =>
              LET resolutions == last'.args[1].conflict_resolutions[1]
                  valid_rows == Registry'[s].validation_results[1].valid_rows
              IN \A i \in 1..Len(valid_rows) :
                     /\ Cardinality(valid_rows[i].flags) <= 1
                     /\ \A k \in 1..Len(resolutions) :
                            (/\ ParseInt(resolutions[k].key) = valid_rows[i].row_index
                             /\ ActionFlag(resolutions[k].action) # ""
                             /\ \A m \in (k + 1)..Len(resolutions) :
                                    ParseInt(resolutions[m].key) # valid_rows[i].row_index)
                                => valid_rows[i].flags = {ActionFlag(resolutions[k].action)}]_vars

\* The row indices the keys of a resolution mapping name.
ResolutionKeys(resolutions) ==
    {ParseInt(resolutions[k].key) : k \in 1..Len(resolutions)}

\* C13: a successful step 4 leaves in the conflict list of the validation
\* outcome exactly the previous entries whose row index is no key of the
\* resolution mapping, in their previous order; every conflict of a row that
\* received no resolution is kept.
C13_ResolvedConflictsRemoved ==
    [][\A s \in DOMAIN Registry :
          Succeeds("step4", s) =>
              LET keys == ResolutionKeys(last'.args[1].conflict_resolutions[1])
                  before == Registry[s].validation_results[1].conflicts
                  after == Registry'[s].validation_results[1].conflicts
                  kept == {k \in 1..Len(before) : before[k].row_index \notin keys}
              IN /\ Len(after) = Cardinality(kept)
                 /\ \A k \in kept :
                        after[Cardinality({m \in kept : m <= k})] = before[k]
                 /\ \A k \in 1..Len(after) : after[k].row_index \notin keys]_vars

\* Step 4 has just resolved one of two conflicting rows: the conflict of the
\* other row is still listed, and the resolved one is gone.
C13_Witness ==
    /\ last.op = "step4" /\ last.result.success
    /\ \E s \in DOMAIN Registry :
          /\ last.session_id = Some(s)
          /\ LET keys == ResolutionKeys(last.args[1].conflict_resolutions[1])
                 found == Registry[s].conflicts
                 after == Registry[s].validation_results[1].conflicts
             IN /\ after # <<>>
                /\ \E k \in 1..Len(found) : found[k].row_index \in keys
                /\ \A k \in 1..Len(after) : after[k].row_index \notin keys

\* The positions in the valid list of the rows not flagged skip.
Importable(valid_rows) ==
    {i \in 1..Len(valid_rows) : "skip_import" \notin valid_rows[i].flags}

\* The records a table gained between two stores.
Gained(before, after) == {k \in 1..Len(after) : k > Len(before)}

\* C14: a step 5 call only appends records to the store the session names,
\* every student, user and e-mail record it appends carries the data of a
\* row of the valid list that is not flagged skip, it appends at most one
\* user and one student per such row, and every row index of the import
\* outcome is the index of such a row; so invalid rows, rows dropped as
\* exact duplicates and skipped rows get no record and no outcome entry.
C14_OnlyValidUnskippedRowsImported ==
    [][\A s \in DOMAIN Registry :
          Serves("step5", s) =>
              LET session == Registry'[s]
                  valid_rows == IF session.validation_results = None THEN <<>>
                                ELSE session.validation_results[1].valid_rows
                  ok == Importable(valid_rows)
              IN /\ \A d \in DbNames :
                        /\ d # session.db_name => db'[d] = db[d]
                        /\ \A k \in 1..Len(db[d].alunos) : db'[d].alunos[k] = db[d].alunos[k]
                        /\ \A k \in 1..Len(db[d].usuarios) : db'[d].usuarios[k] = db[d].usuarios[k]
                        /\ \A k \in 1..Len(db[d].emails) : db'[d].emails[k] = db[d].emails[k]
                        /\ Len(db'[d].alunos) >= Len(db[d].alunos)
                        /\ Len(db'[d].usuarios) >= Len(db[d].usuarios)
                        /\ Len(db'[d].emails) >= Len(db[d].emails)
                        /\ \A k \in Gained(db[d].alunos, db'[d].alunos) :
                               \E i \in ok : RowGet(valid_rows[i].data, "ra")
                                                 = db'[d].alunos[k].a_matricula
                        /\ \A k \in Gained(db[d].usuarios, db'[d].usuarios) :
                               \E i \in ok :
                                   /\ RowGet(valid_rows[i].data, "ra") = db'[d].usuarios[k].u_login
                                   /\ RowGet(valid_rows[i].data, "nome") = db'[d].usuarios[k].u_nome
                        /\ \A k \in Gained(db[d].emails, db'[d].emails) :
                               \E i \in ok : RowGet(valid_rows[i].data, "email")
                                                 = db'[d].emails[k].e_endereco
                        /\ Cardinality(Gained(db[d].alunos, db'[d].alunos)) <= Cardinality(ok)
                        /\ Cardinality(Gained(db[d].usuarios, db'[d].usuarios)) <= Cardinality(ok)
                        /\ db'[d].instituicoes = db[d].instituicoes
                        /\ db'[d].series = db[d].series
                        /\ db'[d].turmas = db[d].turmas
                 /\ last'.result.success =>
                        LET import_results == session.import_results[1]
                            indices == {valid_rows[i].row_index : i \in ok}
                        IN /\ \A k \in 1..Len(import_results.detalhes) :
                                  import_results.detalhes[k].row_index \in indices
                           /\ \A k \in 1..Len(import_results.erros) :
                                  import_results.erros[k].row_index \in indices]_vars

\* Step 5 has just created a student from a session that holds an invalid
\* row, a dropped duplicate and a valid row flagged skip.
C14_Witness ==
    /\ last.op = "step5" /\ last.result.success
    /\ \E s \in DOMAIN Registry :
          /\ last.session_id = Some(s)
          /\ Registry[s].import_results[1].alunos_criados > 0
          /\ Len(db[Registry[s].db_name].alunos) > Len(SeededStore.alunos)
          /\ LET vr == Registry[s].validation_results[1] IN
             /\ vr.invalid_rows # <<>>
             /\ vr.duplicates # <<>>
             /\ \E i \in 1..Len(vr.valid_rows) : "skip_import" \in vr.valid_rows[i].flags

\* No two student records of the store have the same RA.
OneStudentPerRa(store) ==
    \A i, j \in 1..Len(store.alunos) :
        store.alunos[i].a_matricula = store.alunos[j].a_matricula => i = j

\* C15 as stated: a step 5 call creates no student under an RA a student of
\* the store already has, so the store keeps at most one student per RA; and
\* a step 5 call that directly follows a successful step 5 call on the same
\* session and store creates no record at all and reports every row as a
\* duplicate-skip.
C15_SecondImportCreatesNothing ==
    [][\A s \in DOMAIN Registry :
          Serves("step5", s) =>
              /\ \A d \in DbNames : OneStudentPerRa(db[d]) => OneStudentPerRa(db'[d])
              /\ (/\ last.op = "step5"
                  /\ last.session_id = Some(s)
                  /\ last.result.success
                  /\ Registry'[s].db_name = Registry[s].db_name)
                     => /\ db' = db
                        /\ last'.result.success =>
                               LET import_results == Registry'[s].import_results[1]
                               IN /\ import_results.alunos_criados = 0
                                  /\ import_results.erros = <<>>
                                  /\ \A k \in 1..Len(import_results.detalhes) :
                                         import_results.detalhes[k].status = "ra_ja_existe"]_vars

\* The entries of an outcome list that name the row index.
EntriesOf(entries, row_index) ==
    {k \in 1..Len(entries) : entries[k].row_index = row_index}

\* C16: a step 5 call on a validated session whose commit does not raise
\* returns success and leaves the session at step 5 whatever rows fail; every
\* valid row not flagged skip has exactly one entry in the import outcome, a
\* detail or a per-row error; and the store holds
\* after the call one more student for every row the outcome reports created.
C16_RowErrorDoesNotStopBatch ==
    [][\A s \in DOMAIN Registry :
          (/\ Serves("step5", s)
           /\ Registry[s].step >= 3
           /\ last'.args[1].fault # "commit") =>
              /\ last'.result.success
              /\ Registry'[s].step = 5
              /\ LET session == Registry'[s]
                     valid_rows == session.validation_results[1].valid_rows
                     import_results == session.import_results[1]
                     created == {k \in 1..Len(import_results.detalhes) :
                                    import_results.detalhes[k].status = "importado"}
                     store == db'[session.db_name]
                 IN /\ \A i \in Importable(valid_rows) :
                           Cardinality(EntriesOf(import_results.detalhes, valid_rows[i].row_index))
                             + Cardinality(EntriesOf(import_results.erros, valid_rows[i].row_index))
                             = 1
                    /\ Len(import_results.detalhes) + Len(import_results.erros)
                           = Cardinality(Importable(valid_rows))
                    /\ import_results.alunos_criados = Cardinality(created)
                    /\ Len(store.alunos)
                           = Len(db[session.db_name].alunos) + Cardinality(created)
                    /\ \A k \in created :
                           /\ import_results.detalhes[k].aluno_id \in 1..Len(store.alunos)
                           /\ store.alunos[import_results.detalhes[k].aluno_id].a_matricula
                                  = import_results.detalhes[k].ra]_vars

\* Step 5 has just returned success with a per-row error for one row and a
\* student created from a later row.
C16_Witness ==
    /\ last.op = "step5" /\ last.result.success
    /\ \E s \in DOMAIN Registry :
          /\ last.session_id = Some(s)
          /\ Registry[s].step = 5
          /\ LET import_results == Registry[s].import_results[1] IN
             \E e \in 1..Len(import_results.erros), k \in 1..Len(import_results.detalhes) :
                 /\ import_results.erros[e].row_index < import_results.detalhes[k].row_index
                 /\ import_results.detalhes[k].status = "importado"
                 /\ import_results.detalhes[k].aluno_id
                        \in 1..Len(db[Registry[s].db_name].alunos)

\* C17 as stated: when the commit of a step 5 call raises, no record the call
\* created remains in any store, the call returns a failure result, and the
\* step and the import outcome of the session are as before the call.
C17_FailedCommitLeavesNoRecord ==
    [][\A s \in DOMAIN Registry :
          (/\ Serves("step5", s)
           /\ Registry[s].step >= 3
           /\ last'.args[1].fault = "commit") =>
              /\ ~last'.result.success
              /\ db' = db
              /\ Registry'[s].step = Registry[s].step
              /\ Registry'[s].import_results = Registry[s].import_results]_vars

\* C18: when step 3 has just validated a session, running step 3 on it again
\* with the same request, the mapping and the store being as they are,
\* returns the same result and leaves the same valid, invalid, duplicate,
\* similar-name and conflict lists in the session: the second pass replaces
\* the lists of the first and appends nothing to them.
C18_RevalidationReplaces ==
    \A s \in DOMAIN Registry :
        (last.op = "step3" /\ last.session_id = Some(s) /\ last.result.success) =>
            LET again == step3_validar_detectar_conflitos(
                             Registry, db, s, last.args[1].db_name, last.args[1].fault)
            IN /\ again.result = last.result
               /\ again.sessions[s].validation_results = Registry[s].validation_results
               /\ again.sessions[s].conflicts = Registry[s].conflicts
               /\ again.sessions[s].step = 3

\* Step 3 has just validated a session and left every list of the outcome
\* non-empty, so a pass that appended would show.
C18_Witness ==
    /\ last.op = "step3" /\ last.result.success
    /\ \E s \in DOMAIN Registry :
          /\ last.session_id = Some(s)
          /\ LET vr == Registry[s].validation_results[1] IN
             /\ vr.valid_rows # <<>>
             /\ vr.invalid_rows # <<>>
             /\ vr.duplicates # <<>>
             /\ vr.similar_names # <<>>
             /\ vr.conflicts # <<>>
             /\ Registry[s].conflicts = vr.conflicts

\* C19: a call of step 2, 3, 4, 5 or status with a session id the registry
\* does not hold returns the failure result SessionNotFound, leaves the
\* registry as it was, and leaves every store as it was.
C19_UnknownSessionRefused ==
    [][\A op \in StepOps \cup {"status"} :
          (/\ now' = now
           /\ last'.op = op
           /\ last'.session_id # None
           /\ last'.session_id[1] \notin DOMAIN Registry) =>
              /\ ~last'.result.success
              /\ last'.result.kind = "SessionNotFound"
              /\ last'.result.session_id = None
              /\ last'.result.data = None
              /\ import_sessions' = import_sessions
              /\ db' = db]_vars

\* Step 5 has just refused an unknown session id while the registry holds a
\* validated session and the store is as seeded.
C19_Witness ==
    /\ last.op = "step5"
    /\ last.session_id = Some(UnknownSid)
    /\ last.result.kind = "SessionNotFound"
    /\ \E s \in DOMAIN Registry : Registry[s].step >= 3
    /\ db["d1"] = SeededStore

\* The filename ends in .csv, in any case of the letters.
HasCsvExtension(filename) ==
    /\ Len(filename) >= 4
    /\ SubSeq(Lower(filename), Len(filename) - 3, Len(filename)) = <<".", "c", "s", "v">>

\* The number of lines of the content that are not blank.
NonBlankLineCount(content) ==
    LET lines == Split(content, "\n")
    IN Cardinality({k \in 1..Len(lines) : Strip(lines[k]) # <<>>})

\* C20: a step 1 call whose filename does not end in .csv, whose declared
\* size is above 25 MB, or whose content has fewer than two non-blank lines
\* returns a failure result that carries no session id, and leaves the
\* registry, the issued ids and the stores as they were.
C20_RejectedUploadCreatesNoSession ==
    [][(/\ now' = now
        /\ last'.op = "step1"
        /\ \/ ~HasCsvExtension(last'.args[1].filename)
           \/ last'.args[1].file_size > 25 * 1024 * 1024
           \/ NonBlankLineCount(last'.args[1].file_content) < 2) =>
          /\ ~last'.result.success
          /\ last'.result.session_id = None
          /\ last'.result.kind =
                 IF ~HasCsvExtension(last'.args[1].filename) THEN "UnsupportedFileType"
                 ELSE IF last'.args[1].file_size > 25 * 1024 * 1024 THEN "FileTooLarge"
                 ELSE "EmptyInput"
          /\ import_sessions' = import_sessions
          /\ issued' = issued
          /\ db' = db]_vars

\* Step 1 has just rejected an empty upload while the registry holds a
\* session an earlier upload created.
C20_Witness ==
    /\ last.op = "step1"
    /\ ~last.result.success
    /\ last.result.kind = "EmptyInput"
    /\ last.args[1].file_content = <<>>
    /\ DOMAIN Registry # {}
    /\ DOMAIN Registry = issued

WorkflowOps == {"step1", "step2", "step3", "step4", "step5"}

WorkflowNumber(op) == IF op = "step1" THEN 1 ELSE StepNumber(op)

ResultKinds ==
    {"ok", "UnsupportedFileType", "FileTooLarge", "EmptyInput", "SessionNotFound",
     "StepOutOfOrder", "MissingRequiredFields", "Exception"}

\* The request of the call is malformed or meets a failing store: it carries
\* no mapping, no resolution set, a resolution key that is no number, or the
\* store connection or the commit fails.
Malformed(op, args) ==
    \/ op = "step2" /\ args.mapping = None
    \/ op = "step3" /\ args.fault = "connect"
    \/ op = "step4" /\ args.conflict_resolutions = None
    \/ op = "step4" /\ args.conflict_resolutions # None
          /\ \E k \in 1..Len(args.conflict_resolutions[1]) :
                 ParseInt(args.conflict_resolutions[1][k].key) < 0
    \/ op = "step5" /\ args.fault = "commit"

\* C22: every call of step 1 to 5 returns a result with a success value, a
\* message kind and the number of the step, a failure carrying no session id
\* and no data; a call whose request is malformed or whose store fails, on a
\* session that has reached the step, returns the failure result of the
\* step's exception handler.
C22_StepsAlwaysReturnResult ==
    [][\A op \in WorkflowOps :
          (now' = now /\ last'.op = op) =>
              /\ last'.result.success \in BOOLEAN
              /\ last'.result.step = WorkflowNumber(op)
              /\ last'.result.kind \in ResultKinds
              /\ last'.result.success <=> last'.result.kind = "ok"
              /\ ~last'.result.success =>
                     last'.result.session_id = None /\ last'.result.data = None
              /\ \A s \in DOMAIN Registry :
                     (/\ last'.session_id = Some(s)
                      /\ Registry[s].step >= (IF op \in {"step4", "step5"} THEN 3 ELSE IF op = "step3" THEN 2 ELSE 1)
                      /\ Malformed(op, last'.args[1]))
                         => ~last'.result.success /\ last'.result.kind = "Exception"]_vars

\* Step 4 has just answered a resolution set with a key that is no number
\* with the failure result of its exception handler.
C22_Witness ==
    /\ last.op = "step4"
    /\ last.args[1].conflict_resolutions = Some(ResBadKey)
    /\ ~last.result.success
    /\ last.result.kind = "Exception"
    /\ last.result.step = 4

\* C35: a step call that returns a failure result leaves the registry of
\* sessions exactly as it was before the call.
C35_FailedStepLeavesSessionUnchanged ==
    [][\A op \in WorkflowOps :
          (now' = now /\ last'.op = op /\ ~last'.result.success)
              => import_sessions' = import_sessions]_vars

\* C37: once step 3 has succeeded for a session, a step 4 or step 5 call
\* leaves the target dataset of the session as step 3 stored it, and step 5
\* writes to no other dataset.
C37_ImportWritesValidatedDataset ==
    [][\A op \in {"step4", "step5"} : \A s \in DOMAIN Registry :
          (Serves(op, s) /\ Registry[s].step >= 3) =>
              /\ import_sessions'[MainWorker][s].db_name = Registry[s].db_name
              /\ \A d \in DbNames : d # Registry[s].db_name => db'[d] = db[d]]_vars

\* C36: after a successful step 5 every user account the call created has
\* its student record, and no user account was created for a row that the
\* call reports in its error list.
C36_RowIsAllOrNothing ==
    [][\A s \in DOMAIN Registry :
          Succeeds("step5", s) =>
              LET d == import_sessions'[MainWorker][s].db_name
                  created == Gained(db[d].usuarios, db'[d].usuarios)
                  erros == last'.result.data[1].erros
              IN /\ \A k \in created :
                        \E a \in 1..Len(db'[d].alunos) : db'[d].alunos[a].a_usuario = k
                 /\ \A e \in 1..Len(erros) : \A k \in created :
                        db'[d].usuarios[k].u_login # erros[e].ra]_vars

\* C38: after a successful step 5 the counters created and duplicate plus the
\* number of per-row errors equal the number of valid rows not flagged skip,
\* and each such row has exactly one entry, a detail or an error, under its
\* row index; no entry names another row.
C38_OutcomeAccountsForEveryRow ==
    [][\A s \in DOMAIN Registry :
          Succeeds("step5", s) =>
              LET valid_rows == Registry[s].validation_results[1].valid_rows
                  r == last'.result.data[1]
                  indices == {valid_rows[i].row_index : i \in Importable(valid_rows)}
              IN /\ r.alunos_criados + r.alunos_com_ra_duplicado + Len(r.erros)
                        = Cardinality(Importable(valid_rows))
                 /\ \A x \in indices :
                        Cardinality(EntriesOf(r.detalhes, x))
                            + Cardinality(EntriesOf(r.erros, x)) = 1
                 /\ \A k \in 1..Len(r.detalhes) : r.detalhes[k].row_index \in indices
                 /\ \A k \in 1..Len(r.erros) : r.erros[k].row_index \in indices]_vars

\* A step 5 call has succeeded that created a student, met an enrolled RA
\* and recorded an error for a row.
C38_Witness ==
    /\ last.op = "step5"
    /\ last.result.success
    /\ last.result.data[1].alunos_criados >= 1
    /\ last.result.data[1].alunos_com_ra_duplicado >= 1
    /\ Len(last.result.data[1].erros) >= 1


\* The stored rows of a validation outcome carry the fields the stored mapping
\* extracts from the stored data rows (a row whose processing raised carries
\* no field).
ComputedFromStored(session) ==
    /\ session.validation_results # None
    /\ LET vr == session.validation_results[1] IN
       /\ \A i \in 1..Len(vr.valid_rows) :
              /\ vr.valid_rows[i].row_index \in 0..(Len(session.data_rows) - 1)
              /\ vr.valid_rows[i].data
                     = RowData(session, vr.valid_rows[i].row_index).row_data
       /\ \A i \in 1..Len(vr.invalid_rows) :
              /\ vr.invalid_rows[i].row_index \in 0..(Len(session.data_rows) - 1)
              /\ \/ vr.invalid_rows[i].data = <<>>
                 \/ vr.invalid_rows[i].data
                        = RowData(session, vr.invalid_rows[i].row_index).row_data

\* C39: under sequential calls a session whose step is 3 or more stores a
\* validation outcome computed from the mapping and the rows it stores now;
\* a successful step 2 puts the session back at step 2, and steps 4 and 5
\* refuse a session below step 3, so that after a new mapping they are
\* refused until step 3 has run again.
C39_ValidationMatchesStoredMapping ==
    [][\A s \in DOMAIN Registry :
          /\ (s \in DOMAIN Registry' /\ Registry'[s].step >= 3)
                 => ComputedFromStored(Registry'[s])
          /\ Succeeds("step2", s) => Registry'[s].step = 2
          /\ \A op \in {"step4", "step5"} :
                 Serves(op, s) /\ Registry[s].step < 3
                     => /\ ~last'.result.success
                        /\ import_sessions' = import_sessions
                        /\ db' = db]_vars

\* A session validated under one mapping has received another mapping, and a
\* step 4 or step 5 call on it has been refused before step 3 ran again.
C39_Witness ==
    /\ last.op \in {"step4", "step5"}
    /\ ~last.result.success
    /\ last.result.kind = "StepOutOfOrder"
    /\ \E s \in DOMAIN Registry :
           /\ last.session_id = Some(s)
           /\ Registry[s].step = 2
           /\ Registry[s].validation_results # None
           /\ ~ComputedFromStored(Registry[s])

(***************************************************************************)
(* SpecDeploy: the service as gunicorn_config.py deploys it. The master    *)
(* forks NumWorkers worker processes, each with its own import_sessions    *)
(* dict; any worker may accept a request; a worker that has handled its    *)
(* request quota is replaced by a fresh process.                           *)
(***************************************************************************)
\* The requests the clients of the deployment send to worker w.
DeployRequests(w) ==
    \/ Step1(w, FileCsv, Content2, 64, "d1")
    \/ \E s \in issued : Step2(w, s, Some(MapOk), "d1")
    \/ \E s \in issued : Step3(w, s, "d1", "none")
    \/ \E s \in issued : Step4(w, s, Some(ResSkip4), "d1")
    \/ \E s \in issued : Step5(w, s, "d1", "none", FALSE)
    \/ \E s \in issued : Status(w, s)

\* Worker w handles one more request.
Handle(w) ==
    /\ calls < MaxCalls
    /\ served[w] < RequestQuota
    /\ DeployRequests(w)
    /\ served' = [served EXCEPT ![w] = @ + 1]
    /\ calls' = calls + 1
    /\ UNCHANGED <<tasks, base, security>>

\* max_requests: worker w has handled its quota, exits, and the master forks
\* a new worker, whose import_sessions is the empty dict of the preloaded app.
Recycle(w) ==
    /\ served[w] >= RequestQuota
    /\ import_sessions' = [import_sessions EXCEPT ![w] = <<>>]
    /\ served' = [served EXCEPT ![w] = 0]
    /\ UNCHANGED <<now, db, last, issued, calls, tasks, base, security>>

NextDeploy ==
    \/ \E w \in Workers : Handle(w)
    \/ \E w \in Workers : Recycle(w)

SpecDeploy == Init /\ [][NextDeploy]_vars

\* C6 as stated: once step 1 has returned an id, no later step 2-5 or status
\* call with that id is answered SessionNotFound.
C6_IssuedSessionAlwaysFound ==
    \A s \in issued :
        (last.op \in StepOps \cup {"status"} /\ last.session_id = Some(s))
            => last.result.kind # "SessionNotFound"


(***************************************************************************)
(* SpecConc: one worker process and its event loop. Every endpoint of      *)
(* routers/alunos.py is a coroutine (async def) that calls the synchronous *)
(* service method without awaiting anything in between, so the loop runs   *)
(* one service call from its first read to its last write before it        *)
(* resumes any other coroutine. Two calls against one session id arrive     *)
(* together; each reads the registry and the store, computes, and writes.   *)
(***************************************************************************)
\* The calls that race: request = [op, session_id, arg].
Request(op, session_id, arg) == [op |-> op, session_id |-> session_id, arg |-> arg]

RaceRequests(s) ==
    {Request("step2", s, Some(MapOk)), Request("step2", s, Some(MapAlt)),
     Request("step3", s, None), Request("step4", s, Some(ResSkip4)),
     Request("step5", s, None)}

\* The service call of a request on a registry and the stores.
Handler(request, sessions, stores) ==
    CASE request.op = "step2" ->
             LET r == step2_validar_mapeamento(sessions, request.session_id,
                                               request.arg, "d1")
             IN [sessions |-> r.sessions, stores |-> stores, result |-> r.result]
      [] request.op = "step3" ->
             LET r == step3_validar_detectar_conflitos(sessions, stores,
                                                       request.session_id, "d1", "none")
             IN [sessions |-> r.sessions, stores |-> stores, result |-> r.result]
      [] request.op = "step4" ->
             LET r == step4_resolver_conflitos(sessions, request.session_id,
                                               request.arg, "d1")
             IN [sessions |-> r.sessions, stores |-> stores, result |-> r.result]
      [] request.op = "step5" ->
             step5_importar_final(sessions, stores, request.session_id, "d1", "none", FALSE)

\* The writes of a call that read snap and computed new, applied to the
\* session record as it is now: session[key] = value for every key the call
\* assigned.
WriteSession(current, snap, new) ==
    [f \in DOMAIN current |-> IF new[f] # snap[f] THEN new[f] ELSE current[f]]

WriteSessions(current, snap, new) ==
    [s \in DOMAIN current |->
        IF s \in DOMAIN snap /\ s \in DOMAIN new
        THEN WriteSession(current[s], snap[s], new[s])
        ELSE current[s]]

\* A variant in which a service call may be suspended while another runs.
YieldsToOtherTasks(ts) == TRUE

\* async def endpoint, synchronous service call, no await inside: no other
\* coroutine is between its first read and its last write.
RunsToCompletion(ts) == \A u \in TaskIds : ts[u].pc # "running"

Idle == \A t \in TaskIds : tasks[t].pc = "idle"

\* Requests served one at a time that bring sessions to the later steps.
ConcSetup(w) ==
    \/ Step1(w, FileCsv, Content1, 64, "d1")
    \/ \E s \in issued : Step2(w, s, Some(MapOk), "d1")
    \/ \E s \in issued : Step3(w, s, "d1", "none")
    \/ \E s \in issued : Step4(w, s, Some(ResForce4), "d1")

Sequential ==
    /\ Idle
    /\ calls < MaxCalls
    /\ ConcSetup(MainWorker)
    /\ calls' = calls + 1
    /\ UNCHANGED <<served, tasks, base, security>>

\* Two calls against session s arrive and are both waiting on the loop.
Arrive(s, r1, r2) ==
    /\ Idle
    /\ calls < MaxCalls
    /\ s \in DOMAIN import_sessions[MainWorker]
    /\ tasks' = [t \in TaskIds |->
                    [pc |-> "received", request |-> Some(IF t = 1 THEN r1 ELSE r2),
                     snapshot |-> None]]
    /\ base' = Some([sessions |-> import_sessions[MainWorker], stores |-> db])
    /\ calls' = calls + 1
    /\ UNCHANGED <<now, import_sessions, db, last, issued, served, security>>

\* The loop starts the service call of task t: it reads the session.
Begin(t) ==
    /\ tasks[t].pc = "received"
    /\ RunsToCompletion(tasks)
    /\ tasks' = [tasks EXCEPT ![t].pc = "running",
                              ![t].snapshot = Some([sessions |-> import_sessions[MainWorker],
                                                    stores |-> db])]
    /\ UNCHANGED <<now, import_sessions, db, last, issued, calls, served, base, security>>

\* The service call of task t writes the session and the store and returns.
Complete(t) ==
    /\ tasks[t].pc = "running"
    /\ LET request == tasks[t].request[1]
           snap == tasks[t].snapshot[1]
           r == Handler(request, snap.sessions, snap.stores)
       IN /\ import_sessions' =
                 [import_sessions EXCEPT ![MainWorker] =
                     WriteSessions(@, snap.sessions, r.sessions)]
          /\ db' = IF r.stores # snap.stores THEN r.stores ELSE db
          /\ last' = Call(request.op, MainWorker, Some(request.session_id), None, r.result)
    /\ tasks' = [tasks EXCEPT ![t].pc = "done", ![t].snapshot = None]
    /\ UNCHANGED <<now, issued, calls, served, base, security>>

NextConc ==
    \/ Sequential
    \/ \E s \in issued : \E r1, r2 \in RaceRequests(s) : Arrive(s, r1, r2)
    \/ \E t \in TaskIds : Begin(t)
    \/ \E t \in TaskIds : Complete(t)

SpecConc == Init /\ [][NextConc]_vars

\* The registry and the stores after request ra and then request rb, each
\* run alone, from state b.
SerialOutcome(b, ra, rb) ==
    LET first == Handler(ra, b.sessions, b.stores)
        second == Handler(rb, first.sessions, first.stores)
    IN [sessions |-> second.sessions, stores |-> second.stores]

BothDone == \A t \in TaskIds : tasks[t].pc = "done"

\* C5: two calls against one session id never both stand between their read
\* and their write, and when both have returned the registry and the store
\* are what one of the two serial orders produces.
C5_ConcurrentCallsSerialized ==
    /\ ~(\A t \in TaskIds : tasks[t].pc = "running")
    /\ BothDone =>
          LET outcome == [sessions |-> import_sessions[MainWorker], stores |-> db]
              r1 == tasks[1].request[1]
              r2 == tasks[2].request[1]
          IN \/ outcome = SerialOutcome(base[1], r1, r2)
             \/ outcome = SerialOutcome(base[1], r2, r1)

\* A step 2 remapping and a step 3 validation of one session raced, both
\* have returned, and the two serial orders differ.
C5_Witness ==
    /\ BothDone
    /\ {tasks[t].request[1].op : t \in TaskIds} = {"step2", "step3"}
    /\ tasks[1].request[1].session_id = tasks[2].request[1].session_id
    /\ SerialOutcome(base[1], tasks[1].request[1], tasks[2].request[1])
           # SerialOutcome(base[1], tasks[2].request[1], tasks[1].request[1])

(***************************************************************************)
(* SpecUtils: the functions of app/utils are applied to inputs drawn from  *)
(* bounded sets; last records the function, its arguments and its result.  *)
(***************************************************************************)
\* The longest text handed to a text function.
MaxTextLen == 5

\* One letter, one accented letter, one digit, one whitespace, one symbol.
TextAlphabet == {"a", "e_acute", "1", " ", "@"}

Texts(alphabet, n) == UNION {[1..k -> alphabet] : k \in 0..n}

Applied(op, args, result) ==
    /\ last' = Call(op, 0, None, Some(args), result)
    /\ UNCHANGED <<now, import_sessions, db, issued, calls, served, tasks, base, security>>

\* normalize_text(text) on a fresh text
NormalizeText ==
    /\ last.op = "none"
    /\ \E text \in Texts(TextAlphabet, MaxTextLen) :
           Applied("normalize_text", [text |-> text], normalize_text(text))

\* normalize_text applied to the result of the previous normalize_text
NormalizeAgain ==
    /\ last.op = "normalize_text"
    /\ Applied("normalize_text", [text |-> last.result], normalize_text(last.result))

\* The longest name handed to the similarity functions.
MaxNameLen == 3

NameAlphabet == {"a", "A", "b"}

\* calculate_similarity(str1, str2)
Similarity ==
    /\ last.op = "none"
    /\ \E str1 \in Texts(NameAlphabet, MaxNameLen), str2 \in Texts(NameAlphabet, MaxNameLen) :
           Applied("calculate_similarity", [str1 |-> str1, str2 |-> str2],
                   calculate_similarity(str1, str2))

\* The longest name handed to detect_similar_names: the shortest length at
\* which two different names reach the default threshold.
MaxMatchLen == 4

\* The existing names a candidate is compared with.
ExistingLists ==
    {<<>>} \cup {<<[nome |-> a]>> : a \in Texts(NameAlphabet, MaxMatchLen)}
           \cup {<<[nome |-> <<"a", "b", "a", "a">>], [nome |-> a]>> :
                     a \in Texts({"a", "b"}, MaxMatchLen)}

\* detect_similar_names(new_name, existing_names) with the default threshold
FindSimilar ==
    /\ last.op = "none"
    /\ \E new_name \in Texts({"a", "b"}, MaxMatchLen), existing_names \in ExistingLists :
           Applied("detect_similar_names",
                   [new_name |-> new_name, existing_names |-> existing_names],
                   detect_similar_names(new_name, existing_names))

\* The lengths of long names, around the length at which one differing
\* character is less than half a thousandth of the name.
LongNameLengths == {1999, 2000, 2001}

MaxDistance == 2

\* detect_similar_names for a candidate and one existing name that are
\* max_len characters long and differ in distance characters: the names are
\* given by their length and distance, and calculate_similarity returns
\* 1 - distance / max_len for them.
FindSimilarLong ==
    /\ last.op = "none"
    /\ \E max_len \in LongNameLengths, distance \in 1..MaxDistance :
           Applied("detect_similar_names",
                   [max_len |-> max_len, distance |-> distance],
                   SimilarEntry(<<>>, SimilarityAt(max_len, distance)))

\* tuple(str(row.get(field, "")).strip().upper() for field in key_fields)
KeyValues(row, key_fields) ==
    [k \in 1..Len(key_fields) |-> Upper(Strip(RowGet(row, key_fields[k])))]

\* hashlib.md5(str(key_values).encode()).hexdigest(): the digest is given by
\* the tuple it digests (str of a tuple of texts is one-to-one, and no two
\* tuples of the model share a digest)
KeyHash(key_values) == [md5_of |-> key_values]

\* A variant that records a key only when it is met the second time.
RecordDuplicateOnce(duplicates, key_hash, first, idx) ==
    IF key_hash \notin DOMAIN duplicates
    THEN DictPut(duplicates, key_hash, <<first, idx>>)
    ELSE duplicates

\* duplicates[key_hash] = [seen[key_hash], idx], or append(idx)
RecordDuplicate(duplicates, key_hash, first, idx) ==
    IF key_hash \notin DOMAIN duplicates
    THEN DictPut(duplicates, key_hash, <<first, idx>>)
    ELSE DictPut(duplicates, key_hash, Append(duplicates[key_hash], idx))

\* The loop of detect_duplicates from the row with index idx on.
RECURSIVE DetectDuplicatesFrom(_, _, _, _, _)
DetectDuplicatesFrom(data_list, key_fields, idx, seen, duplicates) ==
    IF idx >= Len(data_list) THEN duplicates
    ELSE LET key_hash == KeyHash(KeyValues(data_list[idx + 1], key_fields))
         IN IF key_hash \in DOMAIN seen
            THEN DetectDuplicatesFrom(data_list, key_fields, idx + 1, seen,
                     RecordDuplicate(duplicates, key_hash, seen[key_hash], idx))
            ELSE DetectDuplicatesFrom(data_list, key_fields, idx + 1,
                     DictPut(seen, key_hash, idx), duplicates)

detect_duplicates(data_list, key_fields) ==
    DetectDuplicatesFrom(data_list, key_fields, 0, <<>>, <<>>)

\* The most rows handed to detect_duplicates.
MaxRows == 4

\* The rows: two key fields with the values x, " X" and y, and one row
\* without the second field.
DupRows ==
    {[ESCOLA |-> e, TURMA |-> u] : e \in {<<"x">>, <<" ", "X">>, <<"y">>},
                                   u \in {<<"x">>, <<" ", "X">>, <<"y">>}}
        \cup {[ESCOLA |-> <<"x">>]}

DupKeyFields == <<"ESCOLA", "TURMA">>

\* detect_duplicates(data_list, key_fields)
DetectDuplicates ==
    /\ last.op = "none"
    /\ \E n \in 0..MaxRows : \E data_list \in [1..n -> DupRows] :
           Applied("detect_duplicates",
                   [data_list |-> data_list, key_fields |-> DupKeyFields],
                   detect_duplicates(data_list, DupKeyFields))

\* The byte-order mark U+FEFF as one character.
Bom == "bom"

\* The value csv.DictReader stores for a field the record has no cell for
\* (restval, None): a value that is no text of the model.
RestVal == <<"None_object">>

\* csv.Sniffer().sniff(sample, delimiters=',;') or, when it raises, the
\* count of the two characters: for a sample that uses one of the two
\* characters only, that character, and ',' for a sample with neither.
SniffDelimiter(sample) ==
    IF CountChar(sample, ";") > CountChar(sample, ",") THEN ";" ELSE ","

\* csv.reader over io.StringIO(file_content) for content without quotes:
\* one list of cells per line, the empty list for an empty line
CsvReaderRows(file_content, delimiter) ==
    LET lines == Split(file_content, NL)
        physical == IF lines[Len(lines)] = <<>> THEN SubSeq(lines, 1, Len(lines) - 1)
                    ELSE lines
    IN [k \in 1..Len(physical) |->
           IF physical[k] = <<>> THEN <<>> ELSE Split(physical[k], delimiter)]

\* csv.DictReader.__next__: dict(zip(fieldnames, row)), restval for the
\* names beyond the cells; the cells beyond the names go under the key None,
\* which the caller skips
DictRow(fieldnames, row) ==
    [f \in {fieldnames[i] : i \in 1..Len(fieldnames)} |->
        LET i == CHOOSE j \in 1..Len(fieldnames) :
                     /\ fieldnames[j] = f
                     /\ \A k \in 1..Len(fieldnames) : fieldnames[k] = f => k <= j
        IN IF i <= Len(row) THEN row[i] ELSE RestVal]

\* normalized_row[key.strip().upper()] = value for every non-empty key, in
\* the order of the header; a later key overwrites an earlier one
NormalizedRow(fieldnames, d) ==
    LET keys == {f \in DOMAIN d : f # <<>>}
        first(f) == CHOOSE j \in 1..Len(fieldnames) :
                        /\ fieldnames[j] = f
                        /\ \A k \in 1..Len(fieldnames) : fieldnames[k] = f => j <= k
    IN [n \in {Upper(Strip(f)) : f \in keys} |->
           d[CHOOSE f \in keys :
                 /\ Upper(Strip(f)) = n
                 /\ \A g \in keys : Upper(Strip(g)) = n => first(g) <= first(f)]]

\* normalized_row.get(field, "").strip() raises for a field that holds None
StripRaises(normalized_row, required) ==
    \E k \in 1..Len(required) :
        required[k] \in DOMAIN normalized_row /\ normalized_row[required[k]] = RestVal

\* missing_fields: the required fields that are absent or blank
MissingRequired(normalized_row, required) ==
    SelectSeq(required, LAMBDA field : Strip(MapGet(normalized_row, field)) = <<>>)

\* The loop of process_csv_data over the records from position k on;
\* row_idx counts the records DictReader yields, from 2.
RECURSIVE ProcessRecords(_, _, _, _, _, _)
ProcessRecords(rows, fieldnames, required, k, row_idx, st) ==
    IF k > Len(rows) THEN st
    ELSE IF rows[k] = <<>> THEN ProcessRecords(rows, fieldnames, required, k + 1, row_idx, st)
    ELSE LET normalized_row == NormalizedRow(fieldnames, DictRow(fieldnames, rows[k]))
             counted == [st EXCEPT !.total_rows = row_idx - 1]
         IN IF StripRaises(normalized_row, required)
            THEN [counted EXCEPT !.errors = Append(@, [linha |-> 0, missing |-> <<>>])]
            ELSE IF MissingRequired(normalized_row, required) # <<>>
            THEN ProcessRecords(rows, fieldnames, required, k + 1, row_idx + 1,
                     [counted EXCEPT !.errors =
                          Append(@, [linha |-> row_idx,
                                     missing |-> MissingRequired(normalized_row, required)])])
            ELSE ProcessRecords(rows, fieldnames, required, k + 1, row_idx + 1,
                     [counted EXCEPT !.valid_rows =
                          Append(@, [linha_original |-> row_idx, dados |-> normalized_row])])

process_csv_data(file_content, required) ==
    LET content == IF file_content # <<>> /\ Head(file_content) = Bom
                   THEN Tail(file_content) ELSE file_content
        rows == CsvReaderRows(content, SniffDelimiter(content))
        empty == [valid_rows |-> <<>>, errors |-> <<>>, total_rows |-> 0]
    IN IF content = <<>> THEN empty
       ELSE ProcessRecords(rows, rows[1], required, 2, 2, empty)

\* The most data lines of a content handed to process_csv_data.
MaxDataLines == 3

CsvRequired == <<<<"E">>, <<"T">>>>

\* Header lines: plain, in lower case with blanks, with the byte-order
\* mark, and with ';'.
CsvHeaders == {<<"E", ",", "T">>, <<" ", "e", ",", "t">>, <<Bom, "E", ",", "T">>}

\* Data lines: complete, blank cells, fewer cells than the header, more
\* cells, empty.
CsvDataLines ==
    {<<"a", ",", "b">>, <<",">>, <<"a", ",">>, <<"a">>, <<"a", ",", "b", ",", "c">>, <<>>}

RECURSIVE JoinLines(_)
JoinLines(ls) == IF ls = <<>> THEN <<>> ELSE Head(ls) \o <<NL>> \o JoinLines(Tail(ls))

CsvContents ==
    {JoinLines(<<h>> \o ds) : h \in CsvHeaders,
                              ds \in UNION {[1..n -> CsvDataLines] : n \in 0..MaxDataLines}}
        \cup {<<>>, <<"E", ";", "T", NL, "a", ";", "b", NL, "a", NL>>}

\* process_csv_data(file_content, required_fields)
ProcessCsvData ==
    /\ last.op = "none"
    /\ \E file_content \in CsvContents :
           Applied("process_csv_data",
                   [file_content |-> file_content, required_fields |-> CsvRequired],
                   process_csv_data(file_content, CsvRequired))

\* content.decode('utf-8') of an upload that begins with the bytes EF BB BF
\* keeps them as the character U+FEFF ('utf-8' is tried before 'utf-8-sig'):
\* the decoded contents, with and without the mark
MarkedContents == {Content1, <<Bom>> \o Content1, Content2, <<Bom>> \o Content2}

\* POST /import/alunos/step1 with a decoded content on an empty registry,
\* then POST /import/alunos/step2 for the session with a mapping
UploadThenMap ==
    /\ last.op = "none"
    /\ \E file_content \in MarkedContents, mapping \in {MapOk, MapAlt} :
           LET r1 == step1_upload_validacao(<<>>, 0, FileCsv, file_content, 64, "d1")
               r2 == step2_validar_mapeamento(r1.sessions, SessionId(0, FileCsv),
                                              Some(mapping), "d1")
           IN Applied("upload_then_map",
                      [file_content |-> file_content, mapping |-> mapping],
                      [step1 |-> r1.result, step2 |-> r2.result])

(***************************************************************************)
(* app/services/estrutura_service.py: EstruturaService.validar_estrutura_csv *)
(***************************************************************************)
Escola == <<"E", "S", "C", "O", "L", "A">>

Serie == <<"S", "E", "R", "I", "E">>

Turma == <<"T", "U", "R", "M", "A">>

\* validation_errors of the loop over the valid rows from position k on:
\* special characters in a stripped field, a field empty after
\* normalize_text, a class the store already holds; a combination seen
\* before is skipped.
RECURSIVE StructureErrors(_, _, _, _)
StructureErrors(valid_rows, k, processed_combinations, store) ==
    IF k > Len(valid_rows) THEN <<>>
    ELSE LET dados == valid_rows[k].dados
             linha == valid_rows[k].linha_original
             escola_original == Strip(MapGet(dados, Escola))
             serie_original == Strip(MapGet(dados, Serie))
             turma_original == Strip(MapGet(dados, Turma))
             nome_escola == normalize_text(escola_original)
             nome_serie == normalize_text(serie_original)
             nome_turma == normalize_text(turma_original)
             combination_key == <<nome_escola, nome_serie, nome_turma>>
             escola_id == SelectInstituicao(store, nome_escola)
             serie_id == SelectSerie(store, nome_serie)
         IN IF \/ has_special_characters(escola_original)
               \/ has_special_characters(serie_original)
               \/ has_special_characters(turma_original)
            THEN <<[linha |-> linha, tipo |-> "caracteres_especiais"]>>
                     \o StructureErrors(valid_rows, k + 1, processed_combinations, store)
            ELSE IF nome_escola = <<>> \/ nome_serie = <<>> \/ nome_turma = <<>>
            THEN <<[linha |-> linha, tipo |-> "campo_vazio"]>>
                     \o StructureErrors(valid_rows, k + 1, processed_combinations, store)
            ELSE IF combination_key \in processed_combinations
            THEN StructureErrors(valid_rows, k + 1, processed_combinations, store)
            ELSE (IF /\ escola_id # 0 /\ serie_id # 0
                     /\ SelectTurma(store, nome_turma, serie_id, escola_id) # 0
                  THEN <<[linha |-> linha, tipo |-> "turma_duplicada"]>> ELSE <<>>)
                     \o StructureErrors(valid_rows, k + 1,
                                        processed_combinations \cup {combination_key}, store)

\* A variant that counts a class for every row, a repeated combination
\* included.
RECURSIVE StructureCountsEveryRow(_, _, _, _, _, _)
StructureCountsEveryRow(valid_rows, k, processed_combinations, escolas_unicas, series_unicas, store) ==
    IF k > Len(valid_rows)
    THEN [escolas_criadas |-> Cardinality(escolas_unicas),
          series_criadas |-> Cardinality(series_unicas), turmas_criadas |-> 0]
    ELSE LET dados == valid_rows[k].dados
             nome_escola == normalize_text(Strip(MapGet(dados, Escola)))
             nome_serie == normalize_text(Strip(MapGet(dados, Serie)))
             escola_id == SelectInstituicao(store, nome_escola)
             serie_id == SelectSerie(store, nome_serie)
             rest == StructureCountsEveryRow(valid_rows, k + 1, processed_combinations,
                         IF escola_id = 0 THEN escolas_unicas \cup {nome_escola}
                         ELSE escolas_unicas,
                         IF serie_id = 0 THEN series_unicas \cup {nome_serie}
                         ELSE series_unicas,
                         store)
         IN [rest EXCEPT !.turmas_criadas = @ + 1]

\* The counters escolas_criadas, series_criadas and turmas_criadas of the loop
\* over the valid rows from position k on (lines 280-300): a row that ends
\* in `continue` counts nothing; a school or a grade the store lacks counts
\* once per name; a class counts unless the store holds it.
RECURSIVE StructureCounts(_, _, _, _, _, _)
StructureCounts(valid_rows, k, processed_combinations, escolas_unicas, series_unicas, store) ==
    IF k > Len(valid_rows)
    THEN [escolas_criadas |-> Cardinality(escolas_unicas),
          series_criadas |-> Cardinality(series_unicas), turmas_criadas |-> 0]
    ELSE LET dados == valid_rows[k].dados
             escola_original == Strip(MapGet(dados, Escola))
             serie_original == Strip(MapGet(dados, Serie))
             turma_original == Strip(MapGet(dados, Turma))
             nome_escola == normalize_text(escola_original)
             nome_serie == normalize_text(serie_original)
             nome_turma == normalize_text(turma_original)
             combination_key == <<nome_escola, nome_serie, nome_turma>>
             escola_id == SelectInstituicao(store, nome_escola)
             serie_id == SelectSerie(store, nome_serie)
             turma_existe == /\ escola_id # 0 /\ serie_id # 0
                             /\ SelectTurma(store, nome_turma, serie_id, escola_id) # 0
         IN IF \/ has_special_characters(escola_original)
               \/ has_special_characters(serie_original)
               \/ has_special_characters(turma_original)
               \/ nome_escola = <<>> \/ nome_serie = <<>> \/ nome_turma = <<>>
               \/ combination_key \in processed_combinations
            THEN StructureCounts(valid_rows, k + 1, processed_combinations,
                                 escolas_unicas, series_unicas, store)
            ELSE LET rest == StructureCounts(valid_rows, k + 1,
                                 processed_combinations \cup {combination_key},
                                 IF escola_id = 0 THEN escolas_unicas \cup {nome_escola}
                                 ELSE escolas_unicas,
                                 IF serie_id = 0 THEN series_unicas \cup {nome_serie}
                                 ELSE series_unicas,
                                 store)
                 IN [rest EXCEPT !.turmas_criadas = IF turma_existe THEN @ ELSE @ + 1]

\* result["errors"] as [linha, tipo] entries; tipo "csv" marks a record
\* process_csv_data refused.
CsvErrors(errors) == [i \in 1..Len(errors) |-> [linha |-> errors[i].linha, tipo |-> "csv"]]

\* The success flag, the errors and the stats total_linhas, erros,
\* escolas_criadas, series_criadas and turmas_criadas of the result; the
\* warnings and the similar schools do not enter them.
validar_estrutura_csv(file_content, store) ==
    LET result == process_csv_data(file_content, <<Escola, Serie, Turma>>)
    IN IF result.valid_rows = <<>>
       THEN [success |-> FALSE, total_linhas |-> result.total_rows,
             erros |-> Len(result.errors), errors |-> CsvErrors(result.errors),
             escolas_criadas |-> 0, series_criadas |-> 0, turmas_criadas |-> 0]
       ELSE LET validation_errors == StructureErrors(result.valid_rows, 1, {}, store)
                counts == StructureCounts(result.valid_rows, 1, {}, {}, {}, store)
            IN [success |-> validation_errors = <<>>,
                total_linhas |-> result.total_rows,
                erros |-> Len(result.errors) + Len(validation_errors),
                errors |-> CsvErrors(result.errors) \o validation_errors,
                escolas_criadas |-> counts.escolas_criadas,
                series_criadas |-> counts.series_criadas,
                turmas_criadas |-> counts.turmas_criadas]

EstruturaHeader == Escola \o <<",">> \o Serie \o <<",">> \o Turma

\* Data lines: a new class, a line of empty fields, a name with a symbol,
\* the class the store holds, an empty line.
EstruturaDataLines ==
    {<<"a", ",", "1", ",", "x">>, <<",", ",">>, <<"a", "@", ",", "1", ",", "x">>,
     <<"X", ",", "1", ",", "A">>, <<>>}

EstruturaContents ==
    {JoinLines(<<EstruturaHeader>> \o ds) :
        ds \in UNION {[1..n -> EstruturaDataLines] : n \in 0..MaxDataLines}}

\* POST /import/estrutura/completo with dry_run on the seeded store
ValidarEstrutura ==
    /\ last.op = "none"
    /\ \E file_content \in EstruturaContents :
           Applied("validar_estrutura_csv", [file_content |-> file_content],
                   validar_estrutura_csv(file_content, SeededStore))

\* A letter in each case, a digit, a space, a hyphen and three symbols.
SymbolAlphabet == {"a", "A", "1", " ", "-", "@", "#", "$"}

\* has_special_characters(text)
HasSpecialCharacters ==
    /\ last.op = "none"
    /\ \E text \in Texts(SymbolAlphabet, MaxNameLen) :
           Applied("has_special_characters", [text |-> text], has_special_characters(text))

NextUtils ==
    \/ HasSpecialCharacters
    \/ ValidarEstrutura
    \/ UploadThenMap
    \/ ProcessCsvData
    \/ NormalizeText
    \/ NormalizeAgain
    \/ Similarity
    \/ FindSimilar
    \/ FindSimilarLong
    \/ DetectDuplicates

SpecUtils == Init /\ [][NextUtils]_vars

\* C23: normalize_text applied to a result of normalize_text returns that
\* result unchanged.
C23_NormalizeIdempotent ==
    [][(last.op = "normalize_text" /\ last'.op = "normalize_text")
           => last'.result = last.result]_vars

IsOne(sim) == sim.num = sim.den

IsZero(sim) == sim.num = 0

EqualIgnoringCase(a, b) == Lower(a) = Lower(b)

\* C24 as stated: the similarity of two texts that are equal ignoring case is
\* 1.0 for every text, and the similarity is 0.0 when exactly one of the two
\* texts is empty.
C24_EqualTextsScoreOne ==
    last.op = "calculate_similarity" =>
        LET a == last.args[1].str1
            b == last.args[1].str2
        IN /\ EqualIgnoringCase(a, b) => IsOne(last.result)
           /\ ((a = <<>>) # (b = <<>>)) => IsZero(last.result)

\* C24 amended: the similarity of two non-empty texts that are equal ignoring
\* case is 1.0, and the similarity is 0.0 when at least one of the two texts
\* is empty, two empty texts included.
C24_NonEmptyEqualTextsScoreOne ==
    last.op = "calculate_similarity" =>
        LET a == last.args[1].str1
            b == last.args[1].str2
        IN /\ (a # <<>> /\ b # <<>> /\ EqualIgnoringCase(a, b)) => IsOne(last.result)
           /\ (a = <<>> \/ b = <<>>) => IsZero(last.result)

\* Two different non-empty texts that are equal ignoring case were compared
\* and scored 1.0.
C24_Witness ==
    /\ last.op = "calculate_similarity"
    /\ last.args[1].str1 # last.args[1].str2
    /\ Len(last.args[1].str1) > 1
    /\ EqualIgnoringCase(last.args[1].str1, last.args[1].str2)
    /\ IsOne(last.result)

\* C25: every match detect_similar_names returns reports a score s with
\* threshold <= s < 1.0 (scores are in thousandths).
C25_ScoresWithinBand ==
    last.op = "detect_similar_names" =>
        \A k \in 1..Len(last.result) :
            /\ ThresholdNum * 1000 <= ThresholdDen * last.result[k].similaridade
            /\ last.result[k].similaridade < 1000

\* The composite key of a row: its key fields trimmed and uppercased.
CompositeKey(row, key_fields) ==
    [k \in 1..Len(key_fields) |->
        Upper(Strip(IF key_fields[k] \in DOMAIN row THEN row[key_fields[k]] ELSE <<>>))]

\* The 0-based indices of the rows with the key.
IndicesOfKey(data_list, key_fields, key) ==
    {i - 1 : i \in {j \in 1..Len(data_list) : CompositeKey(data_list[j], key_fields) = key}}

\* The sequence lists the set in ascending order.
AscendingListOf(seq, set) ==
    /\ Len(seq) = Cardinality(set)
    /\ {seq[k] : k \in 1..Len(seq)} = set
    /\ \A k \in 1..(Len(seq) - 1) : seq[k] < seq[k + 1]

\* C26: detect_duplicates returns one group for every composite key that
\* occurs in at least two rows and no other group; the group of a key lists
\* the indices of all rows with the key in ascending order.
C26_OneGroupPerRepeatedKey ==
    last.op = "detect_duplicates" =>
        LET data_list == last.args[1].data_list
            key_fields == last.args[1].key_fields
            keys == {CompositeKey(data_list[i], key_fields) : i \in 1..Len(data_list)}
            repeated == {key \in keys :
                            Cardinality(IndicesOfKey(data_list, key_fields, key)) >= 2}
        IN /\ DOMAIN last.result = {[md5_of |-> key] : key \in repeated}
           /\ \A key \in repeated :
                  AscendingListOf(last.result[[md5_of |-> key]],
                                  IndicesOfKey(data_list, key_fields, key))

\* A list with a key in three rows that differ in case and blanks, and
\* another key in one row, was searched.
C26_Witness ==
    /\ last.op = "detect_duplicates"
    /\ Len(last.args[1].data_list) = 4
    /\ Cardinality(DOMAIN last.result) = 1
    /\ \E h \in DOMAIN last.result : Len(last.result[h]) = 3
    /\ Cardinality({last.args[1].data_list[i] : i \in 1..4}) >= 3

\* The physical lines of a content, without the byte-order mark and without
\* the empty piece after a final line break.
PhysicalLines(file_content) ==
    LET content == IF file_content # <<>> /\ Head(file_content) = Bom
                   THEN Tail(file_content) ELSE file_content
        lines == Split(content, NL)
    IN IF lines[Len(lines)] = <<>> THEN SubSeq(lines, 1, Len(lines) - 1) ELSE lines

\* The 1-based numbers of the lines that hold a data record.
RecordLines(file_content) ==
    {k \in 2..Len(PhysicalLines(file_content)) : PhysicalLines(file_content)[k] # <<>>}

\* The record on the line has a non-blank cell for each of the two required
\* columns.
CompleteRecord(file_content, k) ==
    LET line == PhysicalLines(file_content)[k]
        cells == Split(line, IF InSeq(";", file_content) THEN ";" ELSE ",")
    IN Len(cells) >= 2 /\ Strip(cells[1]) # <<>> /\ Strip(cells[2]) # <<>>

\* C27: process_csv_data classifies every data record: a record with a
\* missing or blank required field, a record with fewer cells than the
\* header included, yields one error carrying its line number, every other
\* record one valid row, and valid rows + errors = total rows = the number of
\* records.
C27_EveryRecordClassified ==
    last.op = "process_csv_data" =>
        LET file_content == last.args[1].file_content
            result == last.result
        IN /\ result.total_rows = Cardinality(RecordLines(file_content))
           /\ Len(result.valid_rows) + Len(result.errors) = result.total_rows
           /\ \A k \in RecordLines(file_content) :
                  IF CompleteRecord(file_content, k)
                  THEN \E i \in 1..Len(result.valid_rows) :
                           result.valid_rows[i].linha_original = k
                  ELSE Cardinality({i \in 1..Len(result.errors) :
                                       result.errors[i].linha = k}) = 1

\* C28: for an upload that begins with the byte-order mark, step 1 stores the
\* headers of the content without the mark, and step 2 accepts a mapping that
\* names those headers.
C28_LeadingMarkRemoved ==
    (last.op = "upload_then_map" /\ Head(last.args[1].file_content) = Bom) =>
        /\ last.result.step1.success
        /\ last.result.step1.data[1].headers
               = parse_csv_basic(Tail(last.args[1].file_content)).headers
        /\ last.result.step2.success

\* The line holds a data record with at least one non-empty field.
HasContent(line) == \E i \in 1..Len(line) : line[i] \notin (Whitespace \cup {","})

\* The content without the data lines whose fields are all empty.
WithoutEmptyRecords(file_content) ==
    LET lines == PhysicalLines(file_content)
    IN JoinLines(<<lines[1]>> \o SelectSeq(Tail(lines), HasContent))

\* C29: a data line whose fields are all empty is ignored by the structure
\* validation: total_linhas is the number of data lines with a non-empty
\* field, and the validation succeeds exactly when it succeeds for the
\* content without the lines of empty fields.
C29_EmptyRecordIgnored ==
    last.op = "validar_estrutura_csv" =>
        LET file_content == last.args[1].file_content
            lines == PhysicalLines(file_content)
        IN /\ last.result.total_linhas
                  = Cardinality({k \in 2..Len(lines) : HasContent(lines[k])})
           /\ last.result.success
                  = validar_estrutura_csv(WithoutEmptyRecords(file_content), SeededStore).success

\* C30: has_special_characters is false for a text of letters, digits,
\* spaces and hyphens only, and true for a text that holds @, # or $.
C30_HyphenAllowedSymbolsRefused ==
    last.op = "has_special_characters" =>
        LET text == last.args[1].text
        IN /\ (\A i \in 1..Len(text) :
                   IsLetter(text[i]) \/ text[i] \in Digits \/ text[i] \in {" ", "-"})
                  => last.result = FALSE
           /\ (\E i \in 1..Len(text) : text[i] \in {"@", "#", "$"})
                  => last.result = TRUE

(***************************************************************************)
(* app/services/estrutura_service.py: EstruturaService.importar_estrutura  *)
(* and the endpoint POST /{db}/import/completo. The store answers every    *)
(* statement; the optional columns of a school are not carried.            *)
(***************************************************************************)
\* cache[nome] of escolas_cache / series_cache, a set of <<nome, id>>; 0 when
\* the name is no key
CacheGet(cache, nome) ==
    IF \E e \in cache : e[1] = nome THEN (CHOOSE e \in cache : e[1] = nome)[2] ELSE 0

\* A variant of the school lookup that never finds a school.
ResolveEscolaBlind(st, nome_escola) ==
    [id |-> Len(st.store.instituicoes) + 1,
     st |-> [st EXCEPT !.store.instituicoes = Append(@, [i_nome |-> nome_escola]),
                       !.escolas_criadas = @ + 1]]

\* Lines 401-449: the school id from the cache, else from the store, else
\* of the school inserted now.
ResolveEscola(st, nome_escola) ==
    IF CacheGet(st.escolas_cache, nome_escola) # 0
    THEN [id |-> CacheGet(st.escolas_cache, nome_escola), st |-> st]
    ELSE LET found == SelectInstituicao(st.store, nome_escola)
             escola_id == IF found # 0 THEN found ELSE Len(st.store.instituicoes) + 1
             cached == [st EXCEPT !.escolas_cache = @ \cup {<<nome_escola, escola_id>>}]
         IN [id |-> escola_id,
             st |-> IF found # 0 THEN cached
                    ELSE [cached EXCEPT
                             !.store.instituicoes = Append(@, [i_nome |-> nome_escola]),
                             !.escolas_criadas = @ + 1]]

\* Lines 451-467: the grade id from the cache, else from the store, else of
\* the grade inserted now.
ResolveSerie(st, nome_serie) ==
    IF CacheGet(st.series_cache, nome_serie) # 0
    THEN [id |-> CacheGet(st.series_cache, nome_serie), st |-> st]
    ELSE LET found == SelectSerie(st.store, nome_serie)
             serie_id == IF found # 0 THEN found ELSE Len(st.store.series) + 1
             cached == [st EXCEPT !.series_cache = @ \cup {<<nome_serie, serie_id>>}]
         IN [id |-> serie_id,
             st |-> IF found # 0 THEN cached
                    ELSE [cached EXCEPT
                             !.store.series = Append(@, [s_nome |-> nome_serie]),
                             !.series_criadas = @ + 1]]

\* Lines 383-495: the loop over the valid rows from position k on.
RECURSIVE ImportStructureRows(_, _, _)
ImportStructureRows(valid_rows, k, st) ==
    IF k > Len(valid_rows) THEN st
    ELSE LET linha == valid_rows[k].linha_original
             dados == valid_rows[k].dados
             nome_escola == normalize_text(MapGet(dados, Escola))
             nome_serie == normalize_text(MapGet(dados, Serie))
             nome_turma == normalize_text(MapGet(dados, Turma))
         IN IF nome_escola = <<>> \/ nome_serie = <<>> \/ nome_turma = <<>>
            THEN ImportStructureRows(valid_rows, k + 1,
                     [st EXCEPT !.import_errors =
                          Append(@, [linha |-> linha, tipo |-> "campo_vazio"])])
            ELSE LET escola == ResolveEscola(st, nome_escola)
                     serie == ResolveSerie(escola.st, nome_serie)
                     st2 == serie.st
                 IN IF SelectTurma(st2.store, nome_turma, serie.id, escola.id) # 0
                    THEN ImportStructureRows(valid_rows, k + 1,
                             [st2 EXCEPT !.import_errors =
                                  Append(@, [linha |-> linha, tipo |-> "turma_duplicada"])])
                    ELSE ImportStructureRows(valid_rows, k + 1,
                             [st2 EXCEPT
                                 !.store.turmas =
                                     Append(@, [t_nome |-> nome_turma, t_serie |-> serie.id,
                                                t_instituicao |-> escola.id]),
                                 !.turmas_criadas = @ + 1])

\* The store the call leaves, and the success flag, the errors and the
\* stats of the result.
importar_estrutura(file_content, store) ==
    LET result == process_csv_data(file_content, <<Escola, Serie, Turma>>)
    IN IF result.valid_rows = <<>>
       THEN [store |-> store,
             result |-> [success |-> FALSE, total_linhas |-> result.total_rows,
                         erros |-> Len(result.errors),
                         errors |-> CsvErrors(result.errors),
                         escolas_criadas |-> 0, series_criadas |-> 0,
                         turmas_criadas |-> 0]]
       ELSE LET st == ImportStructureRows(result.valid_rows, 1,
                          [store |-> store, escolas_cache |-> {}, series_cache |-> {},
                           escolas_criadas |-> 0, series_criadas |-> 0,
                           turmas_criadas |-> 0, import_errors |-> <<>>])
            IN [store |-> st.store,
                result |-> [success |-> TRUE, total_linhas |-> result.total_rows,
                            erros |-> Len(result.errors) + Len(st.import_errors),
                            errors |-> CsvErrors(result.errors) \o st.import_errors,
                            escolas_criadas |-> st.escolas_criadas,
                            series_criadas |-> st.series_criadas,
                            turmas_criadas |-> st.turmas_criadas]]

\* A variant of the endpoint that imports whatever dry_run says.
import_completo_ignoring_dry_run(file_content, dry_run, store) ==
    importar_estrutura(file_content, store)

\* routers/estrutura.py, import_completo: a dry run validates, anything else
\* imports (every content the requests carry decodes).
import_completo(file_content, dry_run, store) ==
    IF dry_run
    THEN [store |-> store, result |-> validar_estrutura_csv(file_content, store)]
    ELSE importar_estrutura(file_content, store)

\* The requests POST /d1/import/completo receives, one after the other.
MaxImports == 2

\* Data lines: a new class of a new school, the same school with an accent,
\* a new class and grade of the school the store holds, the class the store
\* holds, a school name with a symbol, a line of empty fields.
ImportDataLines ==
    {<<"e", ",", "1", ",", "x">>, <<"e_acute", ",", "1", ",", "x">>,
     <<"X", ",", "2", ",", "B">>, <<"X", ",", "1", ",", "A">>,
     <<"e", "@", ",", "3", ",", "y">>, <<",", ",">>}

ImportContents ==
    {JoinLines(<<EstruturaHeader>> \o ds) :
        ds \in UNION {[1..n -> ImportDataLines] : n \in 0..2}}

ImportCompleto ==
    /\ last.op \in {"none", "import_completo"}
    /\ calls < MaxImports
    /\ \E file_content \in ImportContents, dry_run \in BOOLEAN :
           LET r == import_completo(file_content, dry_run, db["d1"]) IN
           /\ db' = [db EXCEPT !["d1"] = r.store]
           /\ last' = Call("import_completo", 0, None,
                           Some([file_content |-> file_content, dry_run |-> dry_run]),
                           r.result)
           /\ calls' = calls + 1
    /\ UNCHANGED <<now, import_sessions, issued, served, tasks, base, security>>

NextEstrutura == ImportCompleto

SpecEstrutura == Init /\ [][NextEstrutura]_vars

\* No two institutions of a name, no two grades of a name, no two classes of
\* a name, grade and school.
DuplicateFree(store) ==
    /\ \A i, j \in 1..Len(store.instituicoes) :
           store.instituicoes[i].i_nome = store.instituicoes[j].i_nome => i = j
    /\ \A i, j \in 1..Len(store.series) :
           store.series[i].s_nome = store.series[j].s_nome => i = j
    /\ \A i, j \in 1..Len(store.turmas) :
           store.turmas[i] = store.turmas[j] => i = j

\* Every row of the table after is a row the table before held at the same
\* position or a row that equals none of them.
OnlyNewRows(before, after) ==
    /\ Len(after) >= Len(before)
    /\ \A k \in 1..Len(before) : after[k] = before[k]
    /\ \A k \in Gained(before, after) : \A i \in 1..Len(before) : after[k] # before[i]

\* C31: a structure import creates a school, a grade or a class only if the
\* store holds none of that name (for a class: of that name, grade and
\* school), so that sequential imports into a duplicate-free store leave it
\* duplicate-free.
C31_ImportsKeepStoreDuplicateFree ==
    [][(last'.op = "import_completo" /\ DuplicateFree(db["d1"]))
           => /\ DuplicateFree(db'["d1"])
              /\ OnlyNewRows(db["d1"].instituicoes, db'["d1"].instituicoes)
              /\ OnlyNewRows(db["d1"].series, db'["d1"].series)
              /\ OnlyNewRows(db["d1"].turmas, db'["d1"].turmas)]_vars

\* A second import has met the school and the class an earlier import
\* created: it created no school and refused the class.
C31_Witness ==
    /\ last.op = "import_completo"
    /\ ~last.args[1].dry_run
    /\ calls = 2
    /\ Len(db["d1"].instituicoes) > Len(SeededStore.instituicoes)
    /\ last.result.success
    /\ last.result.escolas_criadas = 0
    /\ last.result.turmas_criadas = 0
    /\ \E k \in 1..Len(last.result.errors) : last.result.errors[k].tipo = "turma_duplicada"
    /\ Len(db["d1"].turmas) = Len(SeededStore.turmas) + 1

\* C32: an import with dry_run = true creates, updates and deletes nothing
\* in the store.
C32_DryRunLeavesStoreUnchanged ==
    [][(last'.op = "import_completo" /\ last'.args[1].dry_run) => db' = db]_vars

\* A dry run has succeeded that reports a school, a grade and a class to
\* create, and the store is the seeded one.
C32_Witness ==
    /\ last.op = "import_completo"
    /\ last.args[1].dry_run
    /\ last.result.success
    /\ last.result.escolas_criadas > 0
    /\ last.result.series_criadas > 0
    /\ last.result.turmas_criadas > 0
    /\ db["d1"] = SeededStore

\* The valid rows of a content whose raw school, grade or class text holds a
\* disallowed character, and the others.
StructureRows(file_content) ==
    process_csv_data(file_content, <<Escola, Serie, Turma>>).valid_rows

HasSymbol(row) ==
    \/ has_special_characters(MapGet(row.dados, Escola))
    \/ has_special_characters(MapGet(row.dados, Serie))
    \/ has_special_characters(MapGet(row.dados, Turma))

CleanNames(file_content, column) ==
    {normalize_text(MapGet(StructureRows(file_content)[k].dados, column)) :
        k \in {i \in 1..Len(StructureRows(file_content)) :
                  ~HasSymbol(StructureRows(file_content)[i])}}

\* C33: a structure row whose raw school, grade or class text holds a
\* disallowed character is answered with an error for its line, and every
\* school, grade and class the call creates carries the names of a row
\* without such a character, in the import as in the dry run.
C33_SymbolRowsRejected ==
    [][last'.op = "import_completo" =>
          LET file_content == last'.args[1].file_content
              rows == StructureRows(file_content)
              before == db["d1"]
              after == db'["d1"]
          IN /\ \A k \in 1..Len(rows) :
                    HasSymbol(rows[k]) =>
                        \E e \in 1..Len(last'.result.errors) :
                            last'.result.errors[e].linha = rows[k].linha_original
             /\ \A k \in Gained(before.instituicoes, after.instituicoes) :
                    after.instituicoes[k].i_nome \in CleanNames(file_content, Escola)
             /\ \A k \in Gained(before.series, after.series) :
                    after.series[k].s_nome \in CleanNames(file_content, Serie)
             /\ \A k \in Gained(before.turmas, after.turmas) :
                    after.turmas[k].t_nome \in CleanNames(file_content, Turma)]_vars

warmup_period == 1

\* SECURITY_CONFIG['max_attack_attempts']
max_attack_attempts == 3

\* is_warmup = (time.time() - self.startup_time) < self.warmup_period
is_warmup(t) == t < warmup_period

\* is_app_ready(): the startup event marked the application at time 0 and
\* the initialization buffer is shorter than the warmup period.
is_app_ready(t) == ~is_warmup(t)

\* The paths requests carry; ip is the path parameter of unblock-ip.
SecurityPaths ==
    {[route |-> "/security/blocked-ips", ip |-> ""],
     [route |-> "/health", ip |-> ""],
     [route |-> "/admin", ip |-> ""]}
    \cup {[route |-> "/security/unblock-ip/", ip |-> ip] : ip \in ClientIps}

\* SecurityMiddleware.is_allowed_path
is_allowed_path(path) == path.route \in {"/security/blocked-ips", "/security/unblock-ip/", "/health"}

Response(status_code, kind, blocked_ips) ==
    [status_code |-> status_code, kind |-> kind, blocked_ips |-> blocked_ips]

\* get_blocked_ips: the list of the BLOCKED_IPS of routers/sistema.py
get_blocked_ips(sec) ==
    [security |-> sec, response |-> Response(200, "blocked_ips", sec.sistema_BLOCKED_IPS)]

\* unblock_ip: removes ip from the BLOCKED_IPS of routers/sistema.py
unblock_ip(sec, ip) ==
    IF ip \in sec.sistema_BLOCKED_IPS
    THEN [security |-> [sec EXCEPT !.sistema_BLOCKED_IPS = @ \ {ip}],
          response |-> Response(200, "unblocked", {})]
    ELSE [security |-> sec, response |-> Response(200, "was_not_blocked", {})]

\* call_next(request): the route of the path
call_next(sec, path) ==
    IF path.route = "/security/blocked-ips" THEN get_blocked_ips(sec)
    ELSE IF path.route = "/security/unblock-ip/" THEN unblock_ip(sec, path.ip)
    ELSE [security |-> sec, response |-> Response(200, "ok", {})]

\* SecurityMiddleware.dispatch at time t for a request of client_ip;
\* malicious is AttackPatterns.is_malicious(url, user_agent).
dispatch(sec, t, client_ip, path, malicious) ==
    IF ~is_app_ready(t) /\ path.route # "/health" /\ ~is_warmup(t)
    THEN [security |-> sec, response |-> Response(503, "starting", {})]
    ELSE IF ~is_warmup(t) /\ client_ip \in sec.BLOCKED_IPS
    THEN [security |-> sec, response |-> Response(403, "IP blocked", {})]
    ELSE IF ~is_warmup(t) /\ malicious
    THEN LET counted == [sec EXCEPT !.attack_attempts[client_ip] = @ + 1]
         IN [security |->
                IF counted.attack_attempts[client_ip] >= max_attack_attempts
                THEN [counted EXCEPT !.BLOCKED_IPS = @ \cup {client_ip}]
                ELSE counted,
             response |-> Response(403, "Malicious request detected", {})]
    ELSE IF ~is_warmup(t) /\ ~is_allowed_path(path)
    THEN [security |-> sec, response |-> Response(404, "Not found", {})]
    ELSE call_next(sec, path)

\* The requests the process serves.
MaxRequests == 6

SecurityRequest ==
    /\ calls < MaxRequests
    /\ \E client_ip \in ClientIps, path \in SecurityPaths, malicious \in BOOLEAN :
           LET r == dispatch(security, now, client_ip, path, malicious) IN
           /\ security' = r.security
           /\ last' = Call(path.route, 0, None,
                           Some([client_ip |-> client_ip, ip |-> path.ip,
                                 malicious |-> malicious]),
                           r.response)
    /\ calls' = calls + 1
    /\ UNCHANGED <<now, import_sessions, db, issued, served, tasks, base>>

NextSecurity ==
    \/ Tick
    \/ SecurityRequest

SpecSecurity == Init /\ [][NextSecurity]_vars

\* C34: the security endpoints act on the block list the middleware
\* enforces: a served GET /security/blocked-ips lists every address the
\* middleware has blocked, and the non-malicious request an address sends
\* right after a served POST /security/unblock-ip/ of that address is not
\* answered 403.
C34_EndpointsActOnEnforcedBlockList ==
    [][/\ (last'.op = "/security/blocked-ips" /\ last'.result.status_code = 200)
              => security.BLOCKED_IPS \subseteq last'.result.blocked_ips
       /\ (/\ last.op = "/security/unblock-ip/" /\ last.result.status_code = 200
           /\ calls' = calls + 1
           /\ last'.args[1].client_ip = last.args[1].ip
           /\ ~last'.args[1].malicious)
              => last'.result.status_code # 403]_vars

====
